---- MODULE Spec2Model ----
(***************************************************************************)
(* Mary Poppins classification core: AIClassifierService (service.py),     *)
(* ModelRegistry (model_registry.py), EnsembleClassifier (ensemble.py) and *)
(* PerceptualHashService (hashing/service.py).                             *)
(*                                                                         *)
(* Numbers.  Python floats are held as exact rationals:                    *)
(*   - a model score, a confidence and a threshold are integers counting   *)
(*     hundredths (0.85 is 85; a raw model output may lie outside 0..100); *)
(*   - an estimated age is an integer number of years, an age range bound  *)
(*     is an integer counting hundredths of a year;                        *)
(*   - csam_score is an integer numerator over CsamDen.                    *)
(***************************************************************************)
EXTENDS Integers, Sequences, FiniteSets, TLC

VARIABLES
    settings,      \* ClassifierSettings consumed by AIClassifierService
    nsfw_model,    \* AIClassifierService._nsfw_model  ("None" or "session")
    age_model,     \* AIClassifierService._age_model
    scene_model,   \* AIClassifierService._scene_model
    nsfl_model,    \* AIClassifierService._nsfl_model
    init_outcome,  \* how the last initialize() call ended
    call,          \* the model outputs met by the last classify call
    cres           \* what the last classify call handed to its caller

cvars == <<settings, nsfw_model, age_model, scene_model, nsfl_model,
           init_outcome, call, cres>>

VARIABLES
    live,      \* the ModelRegistry instances that were constructed
    builtin,   \* the mutable fields of the BUILTIN_MODELS descriptor objects
    models,    \* models[r]: ModelRegistry._models, in dict (insertion) order
    sessions,  \* sessions[r]: the keys of ModelRegistry._sessions
    clock,     \* the number of datetime.utcnow() readings taken so far
    task,      \* the predict calls of the concurrently running requests
    lres,      \* what the last load_model call handed to its caller
    qres       \* what the last unload_model or query call handed to its caller

rvars == <<live, builtin, models, sessions, clock, task, lres, qres>>

VARIABLES
    ecall,     \* the arguments and the per-model course of the last classify_ensemble
    eres       \* the EnsembleResult the last classify_ensemble handed to its caller

evars == <<ecall, eres>>

VARIABLES
    hsettings, \* the hashing settings and whether a PhotoDNA client was passed
    hcall,     \* the arguments of the last PerceptualHashService call
    hres       \* what the last PerceptualHashService call handed to its caller

hvars == <<hsettings, hcall, hres>>

VARIABLES
    db_unique, \* whether the injected database enforces the unique index on sha256
    records,   \* records[h]: the hash records the database holds for sha256 h
    events,    \* events[h]: the ingestion.file.received events sent for sha256 h
    job        \* job[j]: where ingestion job j stands inside _process_content

ivars == <<db_unique, records, events, job>>

vars == <<cvars, rvars, evars, hvars, ivars>>

-----------------------------------------------------------------------------
(* Helpers *)

Max(a, b) == IF a >= b THEN a ELSE b
Min(a, b) == IF a <= b THEN a ELSE b

\* Python max(iterable, default=d) over a set of integers
MaxDefault(S, d) == IF S = {} THEN d ELSE CHOOSE m \in S : \A x \in S : x <= m

\* the scores of a ClassificationScore list whose category lies in cats
ScoresIn(scores, cats) ==
    { scores[i].score : i \in { j \in DOMAIN scores : scores[j].category \in cats } }

\* dict.get(category, 0) on {s.category: s.score for s in scores}: last entry wins
ScoreMapGet(scores, category) ==
    LET idx == { i \in DOMAIN scores : scores[i].category = category }
    IN  IF idx = {} THEN 0
        ELSE scores[CHOOSE i \in idx : \A j \in idx : j <= i].score

None == [present |-> FALSE]

-----------------------------------------------------------------------------
(* Configuration and catalog constants *)

nsfw_categories ==
    <<"explicit_sexual", "suggestive", "violence_graphic",
      "violence_mild", "drugs", "safe">>

scene_labels ==
    <<"scene_indoor_bedroom", "scene_indoor_bathroom", "scene_indoor_school",
      "scene_indoor_office", "scene_outdoor_playground", "scene_outdoor_street",
      "scene_indoor_generic", "scene_outdoor_generic">>

nsfl_categories ==
    <<"nsfl_gore", "nsfl_violence_graphic", "nsfl_shock", "nsfl_disturbing", "nsfl_safe">>

risky_scenes == {"scene_indoor_bedroom", "scene_indoor_bathroom", "scene_indoor_school"}

ContentCategory ==
    {"safe", "suggestive", "explicit_sexual", "violence_mild", "violence_graphic",
     "drugs", "csam_suspect", "nsfl_suspect"}

\* settings.py nsfl_alert_threshold, in hundredths (read by
\* _determine_classification with this default and never compared)
nsfl_alert_threshold == 80

\* csam_score is a numerator over this denominator: hundredths of weights,
\* hundredths of scores (twice, for suggestive * minor_score), 18 years
CsamDen == 100 * 100 * 100 * 18

-----------------------------------------------------------------------------
(* AIClassifierService: the pure stages *)

\* service.py _run_nsfw_detection: one score per configured category
_run_nsfw_detection(output) ==
    [ i \in 1..Len(nsfw_categories) |->
        [category |-> nsfw_categories[i], score |-> output[i],
         model_name |-> "nsfw_detector"] ]

\* service.py _run_nsfl_detection: absent model gives no scores; short outputs
\* give a score only for the categories they cover
_run_nsfl_detection(model, output) ==
    IF model = "None" THEN <<>>
    ELSE [ i \in 1..Min(Len(nsfl_categories), Len(output)) |->
            [category |-> nsfl_categories[i], score |-> output[i],
             model_name |-> "nsfl_detector"] ]

\* the age stage taking face_detected = 0.5 for no face
AgeNoFaceAtHalf(output) ==
    IF output[3] <= 50 THEN None
    ELSE LET estimated_age == output[1]
             confidence    == output[2]
             margin        == Max(200, (100 - confidence) * 10)
         IN  [present        |-> TRUE,
              estimated_age  |-> estimated_age,
              age_range_low  |-> Max(0, estimated_age * 100 - margin),
              age_range_high |-> estimated_age * 100 + margin,
              confidence     |-> confidence,
              is_minor_likely |-> (estimated_age < 18 /\ confidence > 60)]

\* service.py _run_age_estimation: output = [age, confidence, face_detected]
_run_age_estimation(output) ==
    IF output[3] < 50 THEN None
    ELSE LET estimated_age == output[1]
             confidence    == output[2]
             margin        == Max(200, (100 - confidence) * 10)
         IN  [present        |-> TRUE,
              estimated_age  |-> estimated_age,
              age_range_low  |-> Max(0, estimated_age * 100 - margin),
              age_range_high |-> estimated_age * 100 + margin,
              confidence     |-> confidence,
              is_minor_likely |-> (estimated_age < 18 /\ confidence > 60)]

\* service.py _run_scene_classification
_run_scene_classification(output) ==
    [ i \in 1..Len(scene_labels) |->
        [category |-> scene_labels[i], score |-> output[i],
         model_name |-> "scene_classifier"] ]

\* _compute_csam_risk with the explicit and minor weights exchanged
CsamRiskWeightsSwapped(nsfw_scores, age_estimation, scene_scores) ==
    LET explicit_score   == MaxDefault(ScoresIn(nsfw_scores, {"explicit_sexual"}), 0)
        suggestive_score == MaxDefault(ScoresIn(nsfw_scores, {"suggestive"}), 0)
        minor_score ==
            IF age_estimation.present /\ age_estimation.is_minor_likely
            THEN age_estimation.confidence * Max(0, 18 - age_estimation.estimated_age)
            ELSE 0
        scene_risk == MaxDefault(ScoresIn(scene_scores, risky_scenes), 0)
        csam_score == 40 * explicit_score * 1800
                      + 35 * minor_score * 100
                      + 15 * scene_risk * 1800
                      + 10 * (suggestive_score * minor_score)
    IN  Min(CsamDen, Max(0, csam_score))

\* service.py _compute_csam_risk; the result is a numerator over CsamDen
_compute_csam_risk(nsfw_scores, age_estimation, scene_scores) ==
    LET explicit_score   == MaxDefault(ScoresIn(nsfw_scores, {"explicit_sexual"}), 0)
        suggestive_score == MaxDefault(ScoresIn(nsfw_scores, {"suggestive"}), 0)
        \* minor_score = confidence * age_factor, a numerator over 100 * 18
        minor_score ==
            IF age_estimation.present /\ age_estimation.is_minor_likely
            THEN age_estimation.confidence * Max(0, 18 - age_estimation.estimated_age)
            ELSE 0
        scene_risk == MaxDefault(ScoresIn(scene_scores, risky_scenes), 0)
        csam_score == 35 * explicit_score * 1800
                      + 40 * minor_score * 100
                      + 15 * scene_risk * 1800
                      + 10 * (suggestive_score * minor_score)
    IN  Min(CsamDen, Max(0, csam_score))

\* _determine_classification with the explicit_sexual test ahead of the CSAM test
DetermineExplicitFirst(nsfw_scores, csam_score) ==
    IF ScoreMapGet(nsfw_scores, "explicit_sexual") > settings.confidence_threshold
    THEN "explicit_sexual"
    ELSE IF csam_score >= settings.csam_alert_threshold * (CsamDen \div 100)
    THEN "csam_suspect"
    ELSE IF ScoreMapGet(nsfw_scores, "violence_graphic") > settings.confidence_threshold
    THEN "violence_graphic"
    ELSE IF ScoreMapGet(nsfw_scores, "violence_mild") > settings.confidence_threshold
    THEN "violence_mild"
    ELSE IF ScoreMapGet(nsfw_scores, "suggestive") > settings.confidence_threshold
    THEN "suggestive"
    ELSE IF ScoreMapGet(nsfw_scores, "drugs") > settings.confidence_threshold
    THEN "drugs"
    ELSE "safe"

\* service.py _determine_classification
_determine_classification(nsfw_scores, csam_score) ==
    IF csam_score >= settings.csam_alert_threshold * (CsamDen \div 100)
    THEN "csam_suspect"
    ELSE IF ScoreMapGet(nsfw_scores, "explicit_sexual") > settings.confidence_threshold
    THEN "explicit_sexual"
    ELSE IF ScoreMapGet(nsfw_scores, "violence_graphic") > settings.confidence_threshold
    THEN "violence_graphic"
    ELSE IF ScoreMapGet(nsfw_scores, "violence_mild") > settings.confidence_threshold
    THEN "violence_mild"
    ELSE IF ScoreMapGet(nsfw_scores, "suggestive") > settings.confidence_threshold
    THEN "suggestive"
    ELSE IF ScoreMapGet(nsfw_scores, "drugs") > settings.confidence_threshold
    THEN "drugs"
    ELSE "safe"

\* _should_route_to_review without the borderline csam_score clause
RouteWithoutBorderline(classification, csam_score, nsfw_score, age_est) ==
    IF classification = "csam_suspect" THEN TRUE
    ELSE IF age_est.present /\ age_est.is_minor_likely /\ nsfw_score > 30 THEN TRUE
    ELSE FALSE

\* service.py _should_route_to_review
_should_route_to_review(classification, csam_score, nsfw_score, age_est) ==
    IF classification = "csam_suspect" THEN TRUE
    ELSE IF csam_score * 2 > CsamDen THEN TRUE
    ELSE IF age_est.present /\ age_est.is_minor_likely /\ nsfw_score > 30 THEN TRUE
    ELSE FALSE

-----------------------------------------------------------------------------
(* The answers of the inference backend the classifier stages can meet *)

Answer(v)  == [raised |-> FALSE, output |-> v]
Raises     == [raised |-> TRUE,  output |-> <<>>]
NotReached == [raised |-> FALSE, output |-> <<>>]

\* thresholds are plain parameters; the first pair is the default of settings.py
ThresholdSettings ==
    { [csam_alert_threshold |-> 85, confidence_threshold |-> 70],
      [csam_alert_threshold |-> 40, confidence_threshold |-> 70] }

NsfwAnswers ==
    { Answer(<<e, s, vg, vm, d, sf>>) :
        e \in {0, 60, 70, 90, 100}, s \in {0, 5, 71}, vg \in {0, 71},
        vm \in {0, 71}, d \in {0, 71}, sf \in {5} }
    \cup { Answer(<<100, 0>>), Raises }

AgeAnswers ==
    { Answer(<<a, c, f>>) : a \in {10, 17, 18}, c \in {60, 61, 100}, f \in {49, 50} }
    \cup { Answer(<<1, 60, 50>>), Raises }

SceneAnswers ==
    { Answer(<<bed, bath, 0, 0, 90, 0, 0, 0>>) : bed \in {0, 10, 200}, bath \in {0, 50} }
    \cup { Raises }

NsflAnswers ==
    { Answer(<<0, 0, 0, 0, 100>>), Answer(<<90, 10, 0, 0, 5>>), Answer(<<85>>), Raises }

-----------------------------------------------------------------------------
(* AIClassifierService: operations *)

Idle == [status |-> "idle"]
Raised == [status |-> "raised"]

\* service.py initialize: the three mandatory loads in order, then the
\* optional NSFL load whose failure is only logged
initialize(nsfw_ok, age_ok, scene_ok, nsfl_ok) ==
    /\ cres = Idle
    /\ nsfw_model'  = IF nsfw_ok THEN "session" ELSE nsfw_model
    /\ age_model'   = IF nsfw_ok /\ age_ok THEN "session" ELSE age_model
    /\ scene_model' = IF nsfw_ok /\ age_ok /\ scene_ok THEN "session" ELSE scene_model
    /\ nsfl_model'  = IF nsfw_ok /\ age_ok /\ scene_ok /\ settings.nsfl_model_path /\ nsfl_ok
                      THEN "session" ELSE nsfl_model
    /\ init_outcome' = IF nsfw_ok /\ age_ok /\ scene_ok THEN "returned" ELSE "raised"
    /\ UNCHANGED <<settings, call, cres>>
    /\ UNCHANGED <<rvars, evars, hvars, ivars>>

\* a stage fails when its model was never loaded (None has no predict), when
\* the backend raises, or when the output is too short for the indexed reads
StageFails(model, answer, needed) ==
    model = "None" \/ answer.raised \/ Len(answer.output) < needed

\* the result record with a primary classification that names NSFL content
\* above the alert threshold
ClassificationResultNsflSuspect(nsfw_scores, nsfl_scores, age_result, scene_scores) ==
    LET nsfw_score == MaxDefault(ScoresIn(nsfw_scores, {"explicit_sexual", "suggestive"}), 0)
        nsfl_score == MaxDefault(
                        ScoresIn(nsfl_scores,
                                 {"nsfl_gore", "nsfl_violence_graphic", "nsfl_shock",
                                  "nsfl_disturbing"}), 0)
        csam_score == _compute_csam_risk(nsfw_scores, age_result, scene_scores)
        decided    == _determine_classification(nsfw_scores, csam_score)
        primary    == IF decided # "csam_suspect" /\ nsfl_score > nsfl_alert_threshold
                      THEN "nsfl_suspect" ELSE decided
    IN  [status                 |-> "returned",
         primary_classification |-> primary,
         nsfw_score             |-> nsfw_score,
         csam_score             |-> csam_score,
         age_estimation         |-> age_result,
         all_scores             |-> nsfw_scores \o nsfl_scores \o scene_scores,
         requires_human_review  |->
             _should_route_to_review(primary, csam_score, nsfw_score, age_result),
         nsfl_score             |-> nsfl_score]

\* the result record with a review decision that also looks at the NSFL score
ClassificationResultNsflRoutes(nsfw_scores, nsfl_scores, age_result, scene_scores) ==
    LET nsfw_score == MaxDefault(ScoresIn(nsfw_scores, {"explicit_sexual", "suggestive"}), 0)
        nsfl_score == MaxDefault(
                        ScoresIn(nsfl_scores,
                                 {"nsfl_gore", "nsfl_violence_graphic", "nsfl_shock",
                                  "nsfl_disturbing"}), 0)
        csam_score == _compute_csam_risk(nsfw_scores, age_result, scene_scores)
        primary    == _determine_classification(nsfw_scores, csam_score)
    IN  [status                 |-> "returned",
         primary_classification |-> primary,
         nsfw_score             |-> nsfw_score,
         csam_score             |-> csam_score,
         age_estimation         |-> age_result,
         all_scores             |-> nsfw_scores \o nsfl_scores \o scene_scores,
         requires_human_review  |->
             \/ _should_route_to_review(primary, csam_score, nsfw_score, age_result)
             \/ nsfl_score > 80,
         nsfl_score             |-> nsfl_score]

\* service.py classify, stages 5..7 and the result record
ClassificationResult(nsfw_scores, nsfl_scores, age_result, scene_scores) ==
    LET nsfw_score == MaxDefault(ScoresIn(nsfw_scores, {"explicit_sexual", "suggestive"}), 0)
        nsfl_score == MaxDefault(
                        ScoresIn(nsfl_scores,
                                 {"nsfl_gore", "nsfl_violence_graphic", "nsfl_shock",
                                  "nsfl_disturbing"}), 0)
        csam_score == _compute_csam_risk(nsfw_scores, age_result, scene_scores)
        primary    == _determine_classification(nsfw_scores, csam_score)
    IN  [status                 |-> "returned",
         primary_classification |-> primary,
         nsfw_score             |-> nsfw_score,
         csam_score             |-> csam_score,
         age_estimation         |-> age_result,
         all_scores             |-> nsfw_scores \o nsfl_scores \o scene_scores,
         requires_human_review  |->
             _should_route_to_review(primary, csam_score, nsfw_score, age_result),
         nsfl_score             |-> nsfl_score]

\* service.py classify: the stages run in order and an exception of any
\* stage leaves classify at once
classify ==
    /\ cres = Idle
    /\ UNCHANGED <<settings, nsfw_model, age_model, scene_model, nsfl_model, init_outcome>>
    /\ UNCHANGED <<rvars, evars, hvars, ivars>>
    /\ \E nsfw \in NsfwAnswers :
        IF StageFails(nsfw_model, nsfw, Len(nsfw_categories))
        THEN /\ cres' = Raised
             /\ call' = [nsfw |-> nsfw, nsfl |-> NotReached, age |-> NotReached,
                         scene |-> NotReached]
        ELSE \E nsfl \in (IF nsfl_model = "None" THEN {NotReached} ELSE NsflAnswers) :
          IF nsfl.raised
          THEN /\ cres' = Raised
               /\ call' = [nsfw |-> nsfw, nsfl |-> nsfl, age |-> NotReached,
                           scene |-> NotReached]
          ELSE \E age \in AgeAnswers :
            IF StageFails(age_model, age, 3)
            THEN /\ cres' = Raised
                 /\ call' = [nsfw |-> nsfw, nsfl |-> nsfl, age |-> age,
                             scene |-> NotReached]
            ELSE \E scene \in SceneAnswers :
              /\ call' = [nsfw |-> nsfw, nsfl |-> nsfl, age |-> age, scene |-> scene]
              /\ cres' =
                   IF StageFails(scene_model, scene, Len(scene_labels))
                   THEN Raised
                   ELSE ClassificationResult(
                          _run_nsfw_detection(nsfw.output),
                          _run_nsfl_detection(nsfl_model, nsfl.output),
                          _run_age_estimation(age.output),
                          _run_scene_classification(scene.output))

\* the caller takes the result (or the exception) of classify
ClassifyDelivered ==
    /\ cres # Idle
    /\ cres' = Idle
    /\ call' = [nsfw |-> NotReached, nsfl |-> NotReached, age |-> NotReached,
                scene |-> NotReached]
    /\ UNCHANGED <<settings, nsfw_model, age_model, scene_model, nsfl_model,
                   init_outcome>>
    /\ UNCHANGED <<rvars, evars, hvars, ivars>>

ClassifierInit ==
    /\ settings \in { [csam_alert_threshold |-> t.csam_alert_threshold,
                       confidence_threshold |-> t.confidence_threshold,
                       nsfl_model_path      |-> p] :
                      t \in ThresholdSettings, p \in BOOLEAN }
    /\ nsfw_model = "None"
    /\ age_model = "None"
    /\ scene_model = "None"
    /\ nsfl_model = "None"
    /\ init_outcome = "none"
    /\ call = [nsfw |-> NotReached, nsfl |-> NotReached, age |-> NotReached,
               scene |-> NotReached]
    /\ cres = Idle

ClassifierNext ==
    \/ \E a, b, c, d \in BOOLEAN : initialize(a, b, c, d)
    \/ classify
    \/ ClassifyDelivered


-----------------------------------------------------------------------------
(* ModelRegistry: state *)

Registries == {"a", "b"}

\* BUILTIN_MODELS, in catalog order
BuiltinIds ==
    <<"nsfw_detector_v3", "yahoo_open_nsfw", "nudenet_v3", "clip_safety",
      "nsfl_detector_v1", "age_estimator_v2", "scene_classifier_v1">>

\* a descriptor registered dynamically, of a backend type other than onnx
CustomId == "custom_model"

\* the fields of a ModelDescriptor that no operation changes
Static ==
    [ nsfw_detector_v3 |->
        [preprocessing |-> "imagenet", model_type |-> "onnx", task |-> "nsfw_detection", enabled |-> TRUE, weight |-> 30,
         categories |-> nsfw_categories],
      yahoo_open_nsfw |->
        [preprocessing |-> "caffe", model_type |-> "onnx", task |-> "nsfw_detection", enabled |-> TRUE, weight |-> 30,
         categories |-> <<"nsfw", "sfw">>],
      nudenet_v3 |->
        [preprocessing |-> "raw_0_1", model_type |-> "onnx", task |-> "nsfw_detection", enabled |-> TRUE, weight |-> 25,
         categories |-> <<"safe", "female_genitalia_covered", "female_genitalia_exposed",
                          "male_genitalia_exposed", "buttocks_exposed",
                          "female_breast_exposed", "female_breast_covered",
                          "anus_exposed", "belly_exposed", "feet_exposed",
                          "armpits_exposed", "face_male", "face_female">>],
      clip_safety |->
        [preprocessing |-> "clip", model_type |-> "onnx", task |-> "nsfw_detection", enabled |-> FALSE, weight |-> 15,
         categories |-> <<"unsafe", "safe">>],
      nsfl_detector_v1 |->
        [preprocessing |-> "imagenet", model_type |-> "onnx", task |-> "nsfl_detection", enabled |-> TRUE, weight |-> 100,
         categories |-> <<"gore", "violence_graphic", "shock", "disturbing", "safe">>],
      age_estimator_v2 |->
        [preprocessing |-> "imagenet", model_type |-> "onnx", task |-> "age_estimation", enabled |-> TRUE, weight |-> 100,
         categories |-> <<>>],
      scene_classifier_v1 |->
        [preprocessing |-> "imagenet", model_type |-> "onnx", task |-> "scene_classification", enabled |-> TRUE,
         weight |-> 100,
         categories |-> <<"indoor_bedroom", "indoor_bathroom", "indoor_school",
                          "indoor_office", "outdoor_playground", "outdoor_street",
                          "indoor_generic", "outdoor_generic">>],
      custom_model |->
        [preprocessing |-> "imagenet", model_type |-> "pytorch", task |-> "nsfw_detection", enabled |-> TRUE, weight |-> 50,
         categories |-> <<"explicit_sexual", "safe">>] ]

\* the defaults of the mutable ModelDescriptor fields.  avg_latency_ms is the
\* exact fraction <<numerator, denominator>> in lowest terms; last_inference
\* is 0 for None, else the utcnow reading.  served and served_ms are history:
\* the successful inferences dispatched on the descriptor and their total time.
FreshDescriptor ==
    [loaded |-> FALSE, total_inferences |-> 0, avg_latency_ms |-> <<0, 1>>,
     last_inference |-> 0, served |-> 0, served_ms |-> 0]

RECURSIVE Gcd(_, _)
Gcd(a, b) == IF b = 0 THEN a ELSE Gcd(b, a % b)

Fraction(n, d) == LET g == Gcd(n, d) IN <<n \div g, d \div g>>

\* _models as a dict: its keys, the position of a key, the descriptor of a key
Keys(ms) == { ms[i].model_id : i \in DOMAIN ms }
IndexOf(ms, id) == CHOOSE i \in DOMAIN ms : ms[i].model_id = id

\* the store is the pair of the shared catalog objects and every registry's
\* own entries; a slot either refers to the catalog object or owns a descriptor
Store == [builtin |-> builtin, models |-> models]

Descriptor(st, r, id) ==
    LET slot == st.models[r][IndexOf(st.models[r], id)]
    IN  IF slot.shared THEN st.builtin[id] ELSE slot.d

WriteDescriptor(st, r, id, nd) ==
    LET i == IndexOf(st.models[r], id)
    IN  IF st.models[r][i].shared
        THEN [st EXCEPT !.builtin[id] = nd]
        ELSE [st EXCEPT !.models[r][i].d = nd]

\* dict assignment self._models[model_id] = descriptor
DictSet(ms, slot) ==
    IF slot.model_id \in Keys(ms)
    THEN [ms EXCEPT ![IndexOf(ms, slot.model_id)] = slot]
    ELSE Append(ms, slot)

SharedSlot(id) == [model_id |-> id, shared |-> TRUE, d |-> FreshDescriptor]
OwnSlot(id)    == [model_id |-> id, shared |-> FALSE, d |-> FreshDescriptor]

-----------------------------------------------------------------------------
(* ModelRegistry: bounds and inputs *)

\* successful inferences (utcnow readings) in one behaviour
MaxPredicts == 2

\* elapsed_ms of a successful inference
ElapsedMs == {1, 3}

\* the model ids the callers pass
CallIds == {"nsfw_detector_v3", "yahoo_open_nsfw", "custom_model", "unknown_model"}

\* the model ids passed to predict
PredictIds == {"nsfw_detector_v3", "yahoo_open_nsfw"}

\* the descriptors passed to register: fresh objects for these ids
RegisterIds == {"yahoo_open_nsfw", "custom_model"}

\* the requests that can be inside predict at the same time
TaskIds == DOMAIN task

IdleTask == [pc |-> "idle"]

\* the event loop resumes the caller of a finished coroutine first
NoneDone ==
    /\ \A t \in TaskIds : task[t].pc # "done"
    /\ eres.status = "idle"
    /\ lres.status = "idle"
    /\ qres.status = "idle"

-----------------------------------------------------------------------------
(* ModelRegistry: operations *)

\* model_registry.py register, for a descriptor object created by the caller
register(r, id) ==
    /\ r \in live
    /\ NoneDone
    /\ models' = [models EXCEPT ![r] = DictSet(@, OwnSlot(id))]
    /\ UNCHANGED <<live, builtin, sessions, clock, task, lres, qres>>
    /\ UNCHANGED <<cvars, evars, hvars, ivars>>

RECURSIVE RegisterAll(_, _)
RegisterAll(ms, ids) ==
    IF ids = <<>> THEN ms
    ELSE RegisterAll(DictSet(ms, SharedSlot(Head(ids))), Tail(ids))

\* model_registry.py register_builtins: the catalog objects themselves are stored
register_builtins(r) ==
    /\ r \in live
    /\ NoneDone
    /\ models' = [models EXCEPT ![r] = RegisterAll(@, BuiltinIds)]
    /\ UNCHANGED <<live, builtin, sessions, clock, task, lres, qres>>
    /\ UNCHANGED <<cvars, evars, hvars, ivars>>

LoadIdle == [status |-> "idle"]

\* how load_model ends: ValueError for an unknown id, the exception of
\* InferenceSession(...) for an onnx model, a normal return otherwise
LoadOutcome(r, id, session_ok) ==
    IF id \notin Keys(models[r]) THEN "raised"
    ELSE IF Static[id].model_type = "onnx" /\ ~session_ok THEN "raised"
    ELSE "returned"

\* model_registry.py load_model; session_ok is whether InferenceSession(...)
\* could be built from the model file
load_model(r, id, session_ok) ==
    /\ r \in live
    /\ NoneDone
    /\ IF id \notin Keys(models[r])
       THEN UNCHANGED <<builtin, models, sessions>>            \* ValueError
       ELSE IF Static[id].model_type = "onnx"
       THEN IF session_ok
            THEN LET st == WriteDescriptor(Store, r, id,
                                [Descriptor(Store, r, id) EXCEPT !.loaded = TRUE])
                 IN  /\ sessions' = [sessions EXCEPT ![r] = @ \cup {id}]
                     /\ builtin' = st.builtin
                     /\ models' = st.models
            ELSE UNCHANGED <<builtin, models, sessions>>       \* backend error
       ELSE UNCHANGED <<builtin, models, sessions>>            \* warning only
    /\ lres' = [status |-> LoadOutcome(r, id, session_ok), registry |-> r,
                model_id |-> id,
                session_before |-> id \in sessions[r],
                loaded_before |-> id \in Keys(models[r]) /\ Descriptor(Store, r, id).loaded]
    /\ UNCHANGED <<live, clock, task, qres>>
    /\ UNCHANGED <<cvars, evars, hvars, ivars>>

\* the caller of load_model takes the return or the exception
LoadDelivered ==
    /\ lres # LoadIdle
    /\ lres' = LoadIdle
    /\ UNCHANGED <<live, builtin, models, sessions, clock, task, qres>>
    /\ UNCHANGED <<cvars, evars, hvars, ivars>>

QueryIdle == [status |-> "idle"]

\* unload_model and the queries have no raise statement: they return
QueryReturned(op, r, id, value) ==
    [status |-> "returned", op |-> op, registry |-> r, model_id |-> id, value |-> value]

\* model_registry.py unload_model
unload_model(r, id) ==
    /\ r \in live
    /\ NoneDone
    /\ sessions' = [sessions EXCEPT ![r] = @ \ {id}]
    /\ IF id \in Keys(models[r])
       THEN LET st == WriteDescriptor(Store, r, id,
                            [Descriptor(Store, r, id) EXCEPT !.loaded = FALSE])
            IN  builtin' = st.builtin /\ models' = st.models
       ELSE UNCHANGED <<builtin, models>>
    /\ qres' = QueryReturned("unload_model", r, id, "None")
    /\ UNCHANGED <<live, clock, task, lres>>
    /\ UNCHANGED <<cvars, evars, hvars, ivars>>

\* round(x, 1) of a non-negative exact fraction, in tenths, ties to even
RoundTenths(x) ==
    LET twice == (20 * x[1]) \div x[2]
        exact == (20 * x[1]) % x[2] = 0
        down  == twice \div 2
    IN  IF twice % 2 = 0 THEN down
        ELSE IF exact /\ down % 2 = 0 THEN down
        ELSE down + 1

\* model_registry.py health_check: the dict returned
HealthReport(r, id) ==
    IF id \notin Keys(models[r])
    THEN [model_id |-> id, status |-> "unknown"]
    ELSE LET descriptor == Descriptor(Store, r, id)
         IN  [model_id |-> id, status |-> "known",
              loaded |-> descriptor.loaded, enabled |-> Static[id].enabled,
              total_inferences |-> descriptor.total_inferences,
              avg_latency_ms |-> RoundTenths(descriptor.avg_latency_ms)]

\* model_registry.py health_check
health_check(r, id) ==
    /\ r \in live
    /\ NoneDone
    /\ qres' = QueryReturned("health_check", r, id, HealthReport(r, id))
    /\ UNCHANGED <<live, builtin, models, sessions, clock, task, lres>>
    /\ UNCHANGED <<cvars, evars, hvars, ivars>>

\* model_registry.py list_models: the ids, in dict order; for_task "None"
\* stands for no task filter
ListModels(r, for_task, enabled_only) ==
    LET Wanted(slot) ==
            /\ for_task # "None" => Static[slot.model_id].task = for_task
            /\ enabled_only => Static[slot.model_id].enabled
        found == SelectSeq(models[r], Wanted)
    IN  [ i \in DOMAIN found |-> found[i].model_id ]

\* model_registry.py list_models
list_models(r, for_task, enabled_only) ==
    /\ r \in live
    /\ NoneDone
    /\ qres' = QueryReturned("list_models", r, "None", ListModels(r, for_task, enabled_only))
    /\ UNCHANGED <<live, builtin, models, sessions, clock, task, lres>>
    /\ UNCHANGED <<cvars, evars, hvars, ivars>>

\* the ids of the enabled models registered for a task, in dict order
EnabledForTask(r, for_task) ==
    LET Wanted(slot) == Static[slot.model_id].enabled /\ Static[slot.model_id].task = for_task
        found == SelectSeq(models[r], Wanted)
    IN  [ i \in DOMAIN found |-> found[i].model_id ]

\* model_registry.py get_models_for_task, called on its own
GetModelsForTask(r, for_task) ==
    /\ r \in live
    /\ NoneDone
    /\ qres' = QueryReturned("get_models_for_task", r, "None", EnabledForTask(r, for_task))
    /\ UNCHANGED <<live, builtin, models, sessions, clock, task, lres>>
    /\ UNCHANGED <<cvars, evars, hvars, ivars>>

\* the caller of unload_model or of a query takes what it returned
QueryDelivered ==
    /\ qres # QueryIdle
    /\ qres' = QueryIdle
    /\ UNCHANGED <<live, builtin, models, sessions, clock, task, lres>>
    /\ UNCHANGED <<cvars, evars, hvars, ivars>>

\* the counters a stats update would work from had predict read them before
\* a suspension point: those of the moment the call was issued
StaleCounters(d, at_call) ==
    [d EXCEPT !.total_inferences = at_call.total_inferences,
              !.avg_latency_ms = at_call.avg_latency_ms]

\* model_registry.py predict: descriptor = self._models[model_id] is read and
\* updated within one run of the body, which holds no await
CountersRead(d, at_call) == d

\* the stats update weighting the old average by n instead of n - 1
UpdateStatsWrongWeight(d, elapsed_ms, now) ==
    LET n == d.total_inferences + 1
    IN  [d EXCEPT
           !.total_inferences = n,
           !.avg_latency_ms =
               Fraction(d.avg_latency_ms[1] * n + elapsed_ms * d.avg_latency_ms[2],
                        d.avg_latency_ms[2] * n),
           !.last_inference = now]

\* model_registry.py predict, "Update stats"
UpdateStats(d, elapsed_ms, now) ==
    LET n == d.total_inferences + 1
    IN  [d EXCEPT
           !.total_inferences = n,
           !.avg_latency_ms =
               Fraction(d.avg_latency_ms[1] * (n - 1) + elapsed_ms * d.avg_latency_ms[2],
                        d.avg_latency_ms[2] * n),
           !.last_inference = now]

\* what predict hands back next to the new store: the value or the exception,
\* whether session.run was called, and descriptor.loaded at that moment
PredictResult(st, outcome, dispatched, loaded) ==
    [store |-> st, outcome |-> outcome, dispatched |-> dispatched,
     loaded_at_dispatch |-> loaded]

\* predict updating the stats before session.run, so that a failing
\* inference is counted too
PredictCountsFailures(st, r, id, backend_ok, elapsed_ms, now, at_call) ==
    IF id \notin sessions[r]
    THEN PredictResult(st, "RuntimeError", FALSE, FALSE)
    ELSE LET d   == Descriptor(st, r, id)
             upd == UpdateStats(d, elapsed_ms, now)
             nd  == [upd EXCEPT !.served = d.served + (IF backend_ok THEN 1 ELSE 0),
                                !.served_ms = d.served_ms
                                              + (IF backend_ok THEN elapsed_ms ELSE 0)]
         IN  PredictResult(WriteDescriptor(st, r, id, nd),
                           IF backend_ok THEN "value" ELSE "BackendError",
                           TRUE, d.loaded)

\* model_registry.py predict, from the session lookup to the return or the
\* exception.  backend_ok is whether session.run returns; at_call holds the
\* counters of the moment the call was issued.
Predict(st, r, id, backend_ok, elapsed_ms, now, at_call) ==
    IF id \notin sessions[r]
    THEN PredictResult(st, "RuntimeError", FALSE, FALSE)
    ELSE LET d == Descriptor(st, r, id)
         IN  IF Static[id].model_type # "onnx"
             THEN PredictResult(st, "RuntimeError", FALSE, d.loaded)
             ELSE IF ~backend_ok
             THEN PredictResult(st, "BackendError", TRUE, d.loaded)
             ELSE LET upd == UpdateStats(CountersRead(d, at_call), elapsed_ms, now)
                      nd  == [upd EXCEPT
                                 !.served = d.served + 1,
                                 !.served_ms = d.served_ms + elapsed_ms]
                  IN  PredictResult(WriteDescriptor(st, r, id, nd), "value", TRUE, d.loaded)

\* the counters of a registered model, Fresh for an id that is not registered
Counters(r, id) ==
    IF id \in Keys(models[r]) THEN Descriptor(Store, r, id) ELSE FreshDescriptor

SameCall(s, r, id) ==
    task[s].pc = "awaiting" /\ task[s].registry = r /\ task[s].model_id = id

\* a request issues registry.predict(model_id, tensor): the coroutine exists
\* and waits for the event loop.  overlapped and peer_served are history: was
\* another call for the same model pending together with this one, and how
\* many such calls returned a value meanwhile.
PredictCall(t, r, id) ==
    /\ r \in live
    /\ NoneDone
    /\ task[t].pc = "idle"
    /\ task' = [ s \in TaskIds |->
                  IF s = t
                  THEN [pc |-> "awaiting", registry |-> r, model_id |-> id,
                        at_call |-> [total_inferences |-> Counters(r, id).total_inferences,
                                     avg_latency_ms |-> Counters(r, id).avg_latency_ms],
                        overlapped |-> \E o \in TaskIds \ {t} : SameCall(o, r, id),
                        peer_served |-> 0]
                  ELSE IF SameCall(s, r, id)
                  THEN [task[s] EXCEPT !.overlapped = TRUE]
                  ELSE task[s] ]
    /\ UNCHANGED <<live, builtin, models, sessions, clock, lres, qres>>
    /\ UNCHANGED <<cvars, evars, hvars, ivars>>

\* model_registry.py predict: the body runs without a suspension point
predict(t, backend_ok, elapsed_ms) ==
    /\ NoneDone
    /\ task[t].pc = "awaiting"
    /\ LET r   == task[t].registry
           id  == task[t].model_id
           res == Predict(Store, r, id, backend_ok, elapsed_ms, clock + 1, task[t].at_call)
       IN  /\ res.outcome = "value" => clock < MaxPredicts
           /\ builtin' = res.store.builtin
           /\ models' = res.store.models
           /\ clock' = IF res.outcome = "value" THEN clock + 1 ELSE clock
           /\ task' = [ s \in TaskIds |->
                         IF s = t
                         THEN [pc |-> "done", registry |-> r, model_id |-> id,
                               outcome |-> res.outcome, dispatched |-> res.dispatched,
                               loaded_at_dispatch |-> res.loaded_at_dispatch,
                               overlapped |-> task[t].overlapped,
                               peer_served |-> task[t].peer_served,
                               backend_ok |-> (res.dispatched /\ backend_ok),
                               elapsed_ms |-> IF res.outcome = "value" THEN elapsed_ms ELSE 0,
                               before |-> Counters(r, id)]
                         ELSE IF SameCall(s, r, id) /\ res.outcome = "value"
                         THEN [task[s] EXCEPT !.peer_served = @ + 1]
                         ELSE task[s] ]
    /\ UNCHANGED <<live, sessions, lres, qres>>
    /\ UNCHANGED <<cvars, evars, hvars, ivars>>

\* the awaiting request takes the value or the exception
PredictDelivered(t) ==
    /\ task[t].pc = "done"
    /\ task' = [task EXCEPT ![t] = IdleTask]
    /\ UNCHANGED <<live, builtin, models, sessions, clock, lres, qres>>
    /\ UNCHANGED <<cvars, evars, hvars, ivars>>

\* model_registry.py ModelRegistry.__init__, for the registries in rs; the
\* catalog objects are created when the module is imported
RegistryInit(rs, ts) ==
    /\ live = rs
    /\ builtin = [ i \in { BuiltinIds[k] : k \in DOMAIN BuiltinIds } |-> FreshDescriptor ]
    /\ models = [ r \in Registries |-> <<>> ]
    /\ sessions = [ r \in Registries |-> {} ]
    /\ clock = 0
    /\ task = [ t \in ts |-> IdleTask ]
    /\ lres = LoadIdle
    /\ qres = QueryIdle

RegistryNext ==
    \/ \E r \in Registries, id \in RegisterIds : register(r, id)
    \/ \E r \in Registries : register_builtins(r)
    \/ \E r \in Registries, id \in CallIds, ok \in BOOLEAN : load_model(r, id, ok)
    \/ LoadDelivered
    \/ \E r \in Registries, id \in CallIds : unload_model(r, id)
    \/ QueryDelivered
    \/ \E t \in TaskIds, r \in Registries, id \in PredictIds : PredictCall(t, r, id)
    \/ \E t \in TaskIds, ok \in BOOLEAN, e \in ElapsedMs : predict(t, ok, e)
    \/ \E t \in TaskIds : PredictDelivered(t)

-----------------------------------------------------------------------------
(* EnsembleClassifier.  A normalized score counts thousandths (a raw score  *)
(* in hundredths times a mapping weight in tenths); a final score and an    *)
(* agreement are exact fractions <<numerator, denominator>>.                *)

CANONICAL_NSFW_CATEGORIES ==
    <<"explicit_sexual", "suggestive", "violence_graphic",
      "violence_mild", "drugs", "safe">>

\* CATEGORY_MAPPINGS: per model, (source category, target category, weight in tenths)
CATEGORY_MAPPINGS ==
    [ yahoo_open_nsfw |->
        { <<"nsfw", "explicit_sexual", 7>>, <<"nsfw", "suggestive", 3>>,
          <<"sfw", "safe", 10>> },
      nudenet_v3 |->
        { <<"female_genitalia_exposed", "explicit_sexual", 10>>,
          <<"male_genitalia_exposed", "explicit_sexual", 10>>,
          <<"female_genitalia_covered", "suggestive", 8>>,
          <<"buttocks_exposed", "explicit_sexual", 8>>,
          <<"buttocks_exposed", "suggestive", 2>>,
          <<"female_breast_exposed", "explicit_sexual", 9>>,
          <<"female_breast_exposed", "suggestive", 1>>,
          <<"female_breast_covered", "suggestive", 10>>,
          <<"anus_exposed", "explicit_sexual", 10>>,
          <<"belly_exposed", "suggestive", 5>>, <<"belly_exposed", "safe", 5>>,
          <<"feet_exposed", "safe", 10>>, <<"armpits_exposed", "safe", 10>>,
          <<"face_male", "safe", 10>>, <<"face_female", "safe", 10>>,
          <<"safe", "safe", 10>> },
      clip_safety |->
        { <<"unsafe", "explicit_sexual", 4>>, <<"unsafe", "suggestive", 3>>,
          <<"unsafe", "violence_graphic", 3>>, <<"safe", "safe", 10>> } ]

PreprocessingMethods == {"imagenet", "caffe", "raw_0_1", "clip"}

\* preprocessing.py preprocess: does it return a tensor (the content decodes
\* and the method is known)
PreprocessOk(content_ok, method) == content_ok /\ method \in PreprocessingMethods

\* ensemble.py classify_ensemble: scores[category] = float(raw_output[i])
RawScores(id, raw_output) ==
    [ i \in 1..Min(Len(Static[id].categories), Len(raw_output)) |->
        [category |-> Static[id].categories[i], score |-> raw_output[i]] ]

\* the products score * weight of the reported categories mapped to target
Contributions(model_id, raw_scores, target) ==
    UNION { { raw_scores[i].score * m[3] :
                m \in { x \in CATEGORY_MAPPINGS[model_id] :
                          x[1] = raw_scores[i].category /\ x[2] = target } } :
            i \in DOMAIN raw_scores }

\* ensemble.py _normalize_scores
_normalize_scores(model_id, raw_scores) ==
    IF model_id \notin DOMAIN CATEGORY_MAPPINGS
    THEN [ i \in DOMAIN raw_scores |->
            [category |-> raw_scores[i].category, score |-> raw_scores[i].score * 10] ]
    ELSE [ k \in DOMAIN CANONICAL_NSFW_CATEGORIES |->
            [category |-> CANONICAL_NSFW_CATEGORIES[k],
             score |-> MaxDefault(
                         {0} \cup Contributions(model_id, raw_scores,
                                                CANONICAL_NSFW_CATEGORIES[k]), 0)] ]

\* one entry of model_results
ModelResult(id, raw_output) ==
    [model_id |-> id, weight |-> Static[id].weight,
     raw_scores |-> RawScores(id, raw_output),
     normalized_scores |-> _normalize_scores(id, RawScores(id, raw_output))]

\* dict.get(category, 0.0) on a normalized score dict
NormGet(scores, category) ==
    LET idx == { i \in DOMAIN scores : scores[i].category = category }
    IN  IF idx = {} THEN 0 ELSE scores[CHOOSE i \in idx : TRUE].score

CategoriesOf(scores) == { scores[i].category : i \in DOMAIN scores }

RECURSIVE SeqSum(_)
\* sum(...) over a sequence of numbers
SeqSum(seq) == IF seq = <<>> THEN 0 ELSE Head(seq) + SeqSum(Tail(seq))

\* the weighted average dividing by the weights of the models that report
\* the category only
WeightedAverageOverReporters(model_results) ==
    LET all_categories ==
            UNION { CategoriesOf(model_results[i].normalized_scores) :
                    i \in DOMAIN model_results }
    IN  { [category |-> c,
           score |->
             LET weighted_sum ==
                     SeqSum([ i \in DOMAIN model_results |->
                                NormGet(model_results[i].normalized_scores, c)
                                  * model_results[i].weight ])
                 reporting ==
                     SeqSum([ i \in DOMAIN model_results |->
                                IF c \in CategoriesOf(model_results[i].normalized_scores)
                                THEN model_results[i].weight ELSE 0 ])
             IN  IF reporting > 0
                 THEN Fraction(weighted_sum, reporting * 1000)
                 ELSE <<0, 1>>] :
          c \in all_categories }

\* ensemble.py _weighted_average
_weighted_average(model_results) ==
    LET all_categories ==
            UNION { CategoriesOf(model_results[i].normalized_scores) :
                    i \in DOMAIN model_results }
        total_weight ==
            SeqSum([ i \in DOMAIN model_results |-> model_results[i].weight ])
    IN  { [category |-> c,
           score |->
             LET weighted_sum ==
                     SeqSum([ i \in DOMAIN model_results |->
                                NormGet(model_results[i].normalized_scores, c)
                                  * model_results[i].weight ])
             IN  IF total_weight > 0
                 THEN Fraction(weighted_sum, total_weight * 1000)
                 ELSE <<0, 1>>] :
          c \in all_categories }

\* max(scores, key=scores.get): the first key, in dict order, of the largest value
TopCategory(scores) ==
    LET best == CHOOSE i \in DOMAIN scores :
                    /\ \A j \in DOMAIN scores : scores[j].score <= scores[i].score
                    /\ \A j \in 1..(i - 1) : scores[j].score < scores[i].score
    IN  scores[best].category

TopScore(scores) == MaxDefault({ scores[i].score : i \in DOMAIN scores }, 0)

\* ensemble.py _majority_vote
_majority_vote(model_results) ==
    LET voters == { i \in DOMAIN model_results : model_results[i].normalized_scores # <<>> }
        Votes(c) == Cardinality({ i \in voters :
                                    TopCategory(model_results[i].normalized_scores) = c })
        total_votes == Len(model_results)
    IN  { [category |-> c, score |-> Fraction(Votes(c), total_votes)] :
          c \in { TopCategory(model_results[i].normalized_scores) : i \in voters } }

\* ensemble.py _max_confidence: the first result whose largest score beats
\* every earlier one and the initial best_confidence of -1.0
_max_confidence(model_results) ==
    LET MaxScore(i) == TopScore(model_results[i].normalized_scores)
        winners == { i \in DOMAIN model_results :
                       /\ MaxScore(i) > -1000
                       /\ \A j \in DOMAIN model_results : MaxScore(j) <= MaxScore(i)
                       /\ \A j \in 1..(i - 1) : MaxScore(j) < MaxScore(i) }
    IN  IF winners = {} THEN {}
        ELSE LET best == model_results[CHOOSE i \in winners : TRUE].normalized_scores
             IN  { [category |-> best[k].category, score |-> Fraction(best[k].score, 1000)] :
                   k \in DOMAIN best }

Exactly(n, d) == [kind |-> "exact", value |-> Fraction(n, d)]

\* ensemble.py _compute_agreement.  The all-same branch is
\* max(0, min(1, 1 - std)): it is held as 1 - sqrt(variance) with the exact
\* population variance, and as an exact number where the root is rational
\* (variance 0) or the clamp applies (variance >= 1).
_compute_agreement(model_results) ==
    IF Len(model_results) <= 1 THEN Exactly(1, 1)
    ELSE
    LET voters == { i \in DOMAIN model_results : model_results[i].normalized_scores # <<>> }
        Top(i) == TopCategory(model_results[i].normalized_scores)
        tops   == { Top(i) : i \in voters }
    IN  IF voters = {} THEN Exactly(0, 1)
        ELSE IF Cardinality(tops) = 1
        THEN LET n   == Cardinality(voters)
                 Val(r)  == IF r.normalized_scores = <<>> THEN 0
                            ELSE TopScore(r.normalized_scores)
                 sum     == SeqSum([ i \in DOMAIN model_results |-> Val(model_results[i]) ])
                 squares == SeqSum([ i \in DOMAIN model_results |->
                                       Val(model_results[i]) * Val(model_results[i]) ])
                 \* variance = (n*squares - sum^2) / n^2, in thousandths squared
                 var_num == n * squares - sum * sum
                 var_den == n * n * 1000 * 1000
             IN  IF var_num = 0 THEN Exactly(1, 1)
                 ELSE IF var_num >= var_den THEN Exactly(0, 1)
                 ELSE [kind |-> "one_minus_sqrt", value |-> Fraction(var_num, var_den)]
        ELSE Exactly(
               MaxDefault({ Cardinality({ i \in voters : Top(i) = c }) : c \in tops }, 0),
               Cardinality(voters))

-----------------------------------------------------------------------------
(* EnsembleClassifier.classify_ensemble *)

\* the tasks and methods the callers pass: a task with catalog models and one
\* with none; the three documented methods and a name that is none of them
EnsembleTasks == {"nsfw_detection", "text_detection"}
EnsembleMethods == {"weighted_average", "majority_vote", "max_confidence", "median"}

\* what session.run gives for a model: an output vector in hundredths, of the
\* model's length or shorter, or an exception
ModelAnswers(id) ==
    IF id = "nsfw_detector_v3"
    THEN {Answer(<<90, 5, 0, 0, 0, 5>>), Answer(<<10, 20, 0, 0, 0, 70>>), Answer(<<>>), Raises}
    ELSE IF id = "yahoo_open_nsfw"
    THEN {Answer(<<80, 20>>), Answer(<<10, 90>>), Raises}
    ELSE {Answer(<<>>), Raises}

\* the models session.run can be reached for in registry r
Dispatchable(r, content_ok) ==
    { id \in Keys(models[r]) :
        /\ Descriptor(Store, r, id).loaded
        /\ id \in sessions[r]
        /\ PreprocessOk(content_ok, Static[id].preprocessing) }

\* the answers session.run can give where it is reached, NotReached elsewhere
AnswerChoices(r, content_ok, for_task, id) ==
    IF id \in Dispatchable(r, content_ok) /\ Static[id].task = for_task
    THEN ModelAnswers(id)
    ELSE {NotReached}

\* an answer for every model id
Answers(a1, a2, a3) ==
    [ id \in { BuiltinIds[k] : k \in DOMAIN BuiltinIds } \cup {CustomId} |->
        IF id = "nsfw_detector_v3" THEN a1
        ELSE IF id = "yahoo_open_nsfw" THEN a2
        ELSE IF id = "nudenet_v3" THEN a3
        ELSE NotReached ]

NoCall == [registry |-> "none"]

\* model_registry.py get_models_for_task: the ids, in dict order
get_models_for_task(st, r, for_task) ==
    LET Wanted(slot) == Static[slot.model_id].enabled /\ Static[slot.model_id].task = for_task
        found == SelectSeq(st.models[r], Wanted)
    IN  [ i \in DOMAIN found |-> found[i].model_id ]

\* the EnsembleResult fields
EnsembleResult(for_task, final_scores, model_results, agreement_score, method) ==
    [status |-> "returned", task |-> for_task, final_scores |-> final_scores,
     model_results |-> model_results, agreement_score |-> agreement_score,
     method |-> method]

Step(id, step, dispatched) == [model_id |-> id, step |-> step, dispatched |-> dispatched]

\* the loop body keeping an entry, with no scores, for a model that failed
ModelStepKeepsFailed(acc, r, id, content_ok, answer, elapsed_ms) ==
    LET d == Descriptor(acc.store, r, id)
    IN  IF ~d.loaded
        THEN [acc EXCEPT !.log = Append(@, Step(id, "skipped", FALSE))]
        ELSE IF ~PreprocessOk(content_ok, Static[id].preprocessing)
        THEN [acc EXCEPT !.log = Append(@, Step(id, "preprocess_failed", FALSE)),
                         !.model_results = Append(@, ModelResult(id, <<>>))]
        ELSE LET res == Predict(acc.store, r, id, ~answer.raised, elapsed_ms,
                                acc.now + 1, d)
             IN  IF res.outcome = "value"
                 THEN [store |-> res.store, now |-> acc.now + 1,
                       model_results |-> Append(acc.model_results,
                                                ModelResult(id, answer.output)),
                       log |-> Append(acc.log, Step(id, "ok", TRUE))]
                 ELSE [acc EXCEPT !.log = Append(@, Step(id, "predict_failed",
                                                         res.dispatched)),
                                  !.model_results = Append(@, ModelResult(id, <<>>))]

\* ensemble.py classify_ensemble, the body of "for descriptor in models": the
\* skip of an unloaded model, and the try block whose exceptions are logged
ModelStep(acc, r, id, content_ok, answer, elapsed_ms) ==
    LET d == Descriptor(acc.store, r, id)
    IN  IF ~d.loaded
        THEN [acc EXCEPT !.log = Append(@, Step(id, "skipped", FALSE))]
        ELSE IF ~PreprocessOk(content_ok, Static[id].preprocessing)
        THEN [acc EXCEPT !.log = Append(@, Step(id, "preprocess_failed", FALSE))]
        ELSE LET res == Predict(acc.store, r, id, ~answer.raised, elapsed_ms,
                                acc.now + 1, d)
             IN  IF res.outcome = "value"
                 THEN [store |-> res.store, now |-> acc.now + 1,
                       model_results |-> Append(acc.model_results,
                                                ModelResult(id, answer.output)),
                       log |-> Append(acc.log, Step(id, "ok", TRUE))]
                 ELSE [acc EXCEPT !.log = Append(@, Step(id, "predict_failed",
                                                         res.dispatched))]

RECURSIVE EnsembleLoop(_, _, _, _, _, _)
\* ensemble.py classify_ensemble, "for descriptor in models"
EnsembleLoop(acc, r, ids, content_ok, answers, elapsed_ms) ==
    IF ids = <<>> THEN acc
    ELSE EnsembleLoop(ModelStep(acc, r, Head(ids), content_ok, answers[Head(ids)],
                                elapsed_ms),
                      r, Tail(ids), content_ok, answers, elapsed_ms)

\* the result for an empty model_results returned with the agreement of the
\* no-models case
NoResultsAsNoModels(for_task, method) == EnsembleResult(for_task, {}, <<>>, Exactly(1, 1), method)

\* ensemble.py classify_ensemble, "if not model_results"
NoResults(for_task, method) == EnsembleResult(for_task, {}, <<>>, Exactly(0, 1), method)

\* ensemble.py classify_ensemble, "if not models"
NoModels(for_task, method) == EnsembleResult(for_task, {}, <<>>, Exactly(1, 1), method)

\* ensemble.py classify_ensemble, the dispatch on method
Aggregate(model_results, method) ==
    IF method = "weighted_average" THEN _weighted_average(model_results)
    ELSE IF method = "majority_vote" THEN _majority_vote(model_results)
    ELSE IF method = "max_confidence" THEN _max_confidence(model_results)
    ELSE _weighted_average(model_results)

\* ensemble.py classify_ensemble.  Every await inside is of registry.predict,
\* which never suspends, so the call runs as one step.  The call is taken
\* while the inferences served stay within MaxPredicts.
classify_ensemble(r, content_ok, for_task, method, answers, elapsed_ms) ==
    /\ r \in live
    /\ NoneDone
    /\ \E ids \in {get_models_for_task(Store, r, for_task)} :
       \E acc \in {EnsembleLoop([store |-> Store, now |-> clock,
                                 model_results |-> <<>>, log |-> <<>>],
                                r, ids, content_ok, answers, elapsed_ms)} :
         /\ acc.now <= MaxPredicts
         /\ builtin' = acc.store.builtin
         /\ models' = acc.store.models
         /\ clock' = acc.now
         /\ ecall' = [registry |-> r, task |-> for_task, method |-> method,
                      content_ok |-> content_ok, models |-> ids, log |-> acc.log]
         /\ eres' = IF ids = <<>> THEN NoModels(for_task, method)
                    ELSE IF acc.model_results = <<>> THEN NoResults(for_task, method)
                    ELSE EnsembleResult(for_task, Aggregate(acc.model_results, method),
                                        acc.model_results,
                                        _compute_agreement(acc.model_results), method)
    /\ UNCHANGED <<live, sessions, task, lres, qres>>
    /\ UNCHANGED <<cvars, hvars, ivars>>

\* the caller takes the EnsembleResult
EnsembleDelivered ==
    /\ eres.status = "returned"
    /\ ecall' = NoCall
    /\ eres' = Idle
    /\ UNCHANGED <<rvars, cvars, hvars, ivars>>

EnsembleInit == ecall = NoCall /\ eres = Idle

-----------------------------------------------------------------------------
(* PerceptualHashService.compute_all_hashes *)

\* Optional fields of HashResult
Absent == [present |-> FALSE]
Present(v) == [present |-> TRUE, value |-> v]

\* what one hash computation does: it returns a hash or raises an Exception
Fails == [raised |-> TRUE]
Gives(v) == [raised |-> FALSE, value |-> v]

\* the outcomes of the three computations for the contents passed
PhashOutcomes == {Gives("d1c4a3b2"), Gives("ffee0011"), Fails}
PdqOutcomes == {Gives(<<"9a3f", 80>>), Gives(<<"0b7c", 20>>), Fails}
PhotodnaOutcomes == {Gives("dna1"), Gives("dna2"), Fails}

NotAttempted == [raised |-> FALSE, value |-> "not attempted"]

HashIdle == [status |-> "idle"]
NoHashCall == [op |-> "none"]

\* HashResult(sha256=sha256): every hash field None, errors []
EmptyHashResult ==
    [status |-> "returned", phash |-> Absent, pdq_hash |-> Absent,
     pdq_quality |-> Absent, photodna_hash |-> Absent, errors |-> <<>>]

\* the pHash block: the field on success, an error entry tagged phash otherwise
PhashBlock(result, outcome) ==
    IF ~hsettings.enable_phash THEN result
    ELSE IF outcome.raised THEN [result EXCEPT !.errors = Append(@, "phash")]
    ELSE [result EXCEPT !.phash = Present(outcome.value)]

\* the PDQ block: hash and quality are assigned after the computation returned
PdqBlock(result, outcome) ==
    IF ~hsettings.enable_pdq THEN result
    ELSE IF outcome.raised THEN [result EXCEPT !.errors = Append(@, "pdq")]
    ELSE [result EXCEPT !.pdq_hash = Present(outcome.value[1]),
                        !.pdq_quality = Present(outcome.value[2])]

\* the PhotoDNA block aborting the call on a failure instead of recording it
PhotodnaBlockUncaught(result, outcome) ==
    IF ~(hsettings.enable_photodna /\ hsettings.photodna_client) THEN result
    ELSE IF outcome.raised THEN [status |-> "raised"]
    ELSE [result EXCEPT !.photodna_hash = Present(outcome.value)]

\* the PhotoDNA block, entered only with the flag set and a client passed
PhotodnaBlock(result, outcome) ==
    IF ~(hsettings.enable_photodna /\ hsettings.photodna_client) THEN result
    ELSE IF outcome.raised THEN [result EXCEPT !.errors = Append(@, "photodna")]
    ELSE [result EXCEPT !.photodna_hash = Present(outcome.value)]

\* what compute_all_hashes passes to a collaborator outside the process:
\* pHash and PDQ are computed by libraries in memory, _compute_photodna calls
\* self._photodna.compute_hash(content) on the injected client
HandedOver ==
    IF hsettings.enable_photodna /\ hsettings.photodna_client
    THEN { [collaborator |-> "photodna_client", data |-> "content"] }
    ELSE {}

\* hashing/service.py compute_all_hashes
compute_all_hashes(phash, pdq, photodna) ==
    /\ hres = HashIdle
    /\ hcall' = [op |-> "compute_all_hashes", phash |-> phash, pdq |-> pdq,
                 photodna |-> photodna, handed_over |-> HandedOver]
    /\ hres' = PhotodnaBlock(PdqBlock(PhashBlock(EmptyHashResult, phash), pdq), photodna)
    /\ UNCHANGED hsettings
    /\ UNCHANGED <<cvars, rvars, evars, ivars>>

\* the caller takes the HashResult
HashDelivered ==
    /\ hres # HashIdle
    /\ hres' = HashIdle
    /\ hcall' = NoHashCall
    /\ UNCHANGED hsettings
    /\ UNCHANGED <<cvars, rvars, evars, ivars>>

\* hashing/service.py PerceptualHashService.__init__ with the default settings
HashingInit ==
    /\ hsettings = [enable_phash |-> TRUE, enable_pdq |-> TRUE,
                    enable_photodna |-> TRUE, photodna_client |-> FALSE]
    /\ hcall = NoHashCall
    /\ hres = HashIdle

\* hashing/service.py PerceptualHashService.__init__ with any feature flags,
\* with and without a PhotoDNA client
HashingInitAny ==
    /\ hsettings \in [enable_phash : BOOLEAN, enable_pdq : BOOLEAN,
                      enable_photodna : BOOLEAN, photodna_client : BOOLEAN]
    /\ hcall = NoHashCall
    /\ hres = HashIdle

\* the outcomes of the computations that are run, NotAttempted for the others
OutcomeChoices(attempted, outcomes) == IF attempted THEN outcomes ELSE {NotAttempted}

HashingNext ==
    \/ \E phash \in OutcomeChoices(hsettings.enable_phash, PhashOutcomes),
          pdq \in OutcomeChoices(hsettings.enable_pdq, PdqOutcomes),
          photodna \in OutcomeChoices(hsettings.enable_photodna /\ hsettings.photodna_client,
                                      PhotodnaOutcomes) :
         compute_all_hashes(phash, pdq, photodna)
    \/ HashDelivered

-----------------------------------------------------------------------------
(* PerceptualHashService: Hamming distance.  A hex-encoded hash is the      *)
(* sequence of its characters, a byte-array hash the sequence of its bytes. *)

HexLower == <<"0", "1", "2", "3", "4", "5", "6", "7", "8", "9",
              "a", "b", "c", "d", "e", "f">>
HexUpper == <<"0", "1", "2", "3", "4", "5", "6", "7", "8", "9",
              "A", "B", "C", "D", "E", "F">>

\* the value int(..., 16) gives one hex character
HexValue(ch) ==
    (CHOOSE i \in DOMAIN HexLower : HexLower[i] = ch \/ HexUpper[i] = ch) - 1

RECURSIVE IntOfHex(_)
\* int(hash, 16)
IntOfHex(hash) ==
    IF hash = <<>> THEN 0
    ELSE IntOfHex(SubSeq(hash, 1, Len(hash) - 1)) * 16 + HexValue(hash[Len(hash)])

RECURSIVE BitwiseOr(_, _)
\* a | b on non-negative integers
BitwiseOr(a, b) ==
    IF a = 0 /\ b = 0 THEN 0
    ELSE (IF a % 2 = 1 \/ b % 2 = 1 THEN 1 ELSE 0) + 2 * BitwiseOr(a \div 2, b \div 2)

RECURSIVE BitwiseXor(_, _)
\* a ^ b on non-negative integers
BitwiseXor(a, b) ==
    IF a = 0 /\ b = 0 THEN 0
    ELSE (((a % 2) + (b % 2)) % 2) + 2 * BitwiseXor(a \div 2, b \div 2)

RECURSIVE CountOnes(_)
\* bin(n).count("1")
CountOnes(n) == IF n = 0 THEN 0 ELSE (n % 2) + CountOnes(n \div 2)

HashReturned(v) == [status |-> "returned", value |-> v]
HashRaised(e) == [status |-> "raised", error |-> e]

\* hashing/service.py hamming_distance_hex
HammingHex(hash1, hash2) ==
    IF Len(hash1) # Len(hash2) THEN HashRaised("ValueError")
    ELSE HashReturned(CountOnes(BitwiseXor(IntOfHex(hash1), IntOfHex(hash2))))

\* hashing/service.py hamming_distance_bytes
HammingBytes(hash1, hash2) ==
    IF Len(hash1) # Len(hash2) THEN HashRaised("ValueError")
    ELSE HashReturned(SeqSum([ i \in DOMAIN hash1 |->
                                 CountOnes(BitwiseXor(hash1[i], hash2[i])) ]))

\* the longest hash passed
MaxHashLen == 2

\* the characters and bytes the hashes passed are made of
HexChars == {"0", "7", "a", "F"}
ByteValues == {0, 1, 128, 255}

SeqsOver(S, lo, hi) == UNION { [1..n -> S] : n \in lo..hi }

\* hex-encoded hashes hold at least one character
HexHashes == SeqsOver(HexChars, 1, MaxHashLen)
ByteHashes == SeqsOver(ByteValues, 0, MaxHashLen)

hamming_distance_hex(hash1, hash2) ==
    /\ hres = HashIdle
    /\ hcall' = [op |-> "hamming_distance_hex", hash1 |-> hash1, hash2 |-> hash2]
    /\ hres' = HammingHex(hash1, hash2)
    /\ UNCHANGED hsettings
    /\ UNCHANGED <<cvars, rvars, evars, ivars>>

hamming_distance_bytes(hash1, hash2) ==
    /\ hres = HashIdle
    /\ hcall' = [op |-> "hamming_distance_bytes", hash1 |-> hash1, hash2 |-> hash2]
    /\ hres' = HammingBytes(hash1, hash2)
    /\ UNCHANGED hsettings
    /\ UNCHANGED <<cvars, rvars, evars, ivars>>

HammingNext ==
    \/ \E hash1, hash2 \in HexHashes : hamming_distance_hex(hash1, hash2)
    \/ \E hash1, hash2 \in ByteHashes : hamming_distance_bytes(hash1, hash2)
    \/ HashDelivered

-----------------------------------------------------------------------------
(* IngestionService._process_content.  Each await of a collaborator is a    *)
(* point where another ingest call can run.                                 *)

\* the ingest calls made and the SHA-256 values of the content they carry
JobIds == {"j1", "j2", "j3"}
Sha256s == {"h1", "h2"}

IdleJob == [pc |-> "idle"]

JobAt(pc, sha256) == [pc |-> pc, sha256 |-> sha256]

\* the IngestionResult status returned, or the exception raised
JobDone(sha256, status) == [pc |-> "done", sha256 |-> sha256, status |-> status]

IngestionInit ==
    /\ db_unique = TRUE
    /\ records = [h \in Sha256s |-> 0]
    /\ events = [h \in Sha256s |-> 0]
    /\ job = [j \in JobIds |-> IdleJob]

\* the database collaborator with or without the unique index of ContentHash.sha256
IngestionInitAny ==
    /\ db_unique \in BOOLEAN
    /\ records = [h \in Sha256s |-> 0]
    /\ events = [h \in Sha256s |-> 0]
    /\ job = [j \in JobIds |-> IdleJob]

\* an ingest call reaches `await self._db.get_content_hash_by_sha256(sha256)`
\* with the SHA-256 of its content
ingest(j, sha256) ==
    /\ job[j].pc = "idle"
    /\ job' = [job EXCEPT ![j] = JobAt("get_content_hash", sha256)]
    /\ UNCHANGED <<db_unique, records, events>>
    /\ UNCHANGED <<cvars, rvars, evars, hvars>>

\* the database answers the lookup: a record found returns status duplicate
get_content_hash_by_sha256(j) ==
    /\ job[j].pc = "get_content_hash"
    /\ job' = [job EXCEPT ![j] =
                 IF records[job[j].sha256] > 0
                 THEN JobDone(job[j].sha256, "duplicate")
                 ELSE JobAt("extract", job[j].sha256)]
    /\ UNCHANGED <<db_unique, records, events>>
    /\ UNCHANGED <<cvars, rvars, evars, hvars>>

\* `await self._metadata.extract(content, mime_type)` returns or raises
extract(j, ok) ==
    /\ job[j].pc = "extract"
    /\ job' = [job EXCEPT ![j] =
                 IF ok THEN JobAt("create_content_hash", job[j].sha256)
                 ELSE JobDone(job[j].sha256, "MetadataError")]
    /\ UNCHANGED <<db_unique, records, events>>
    /\ UNCHANGED <<cvars, rvars, evars, hvars>>

\* `await self._db.create_content_hash(...)`: the insert, refused by the
\* unique index when a record of this sha256 exists
create_content_hash(j) ==
    /\ job[j].pc = "create_content_hash"
    /\ IF db_unique /\ records[job[j].sha256] > 0
       THEN /\ job' = [job EXCEPT ![j] = JobDone(job[j].sha256, "IntegrityError")]
            /\ UNCHANGED records
       ELSE /\ job' = [job EXCEPT ![j] = JobAt("send", job[j].sha256)]
            /\ records' = [records EXCEPT ![job[j].sha256] = @ + 1]
    /\ UNCHANGED <<db_unique, events>>
    /\ UNCHANGED <<cvars, rvars, evars, hvars>>

\* `await self._kafka.send(topic="ingestion.file.received", ...)` and the return
send(j, ok) ==
    /\ job[j].pc = "send"
    /\ job' = [job EXCEPT ![j] =
                 JobDone(job[j].sha256, IF ok THEN "completed" ELSE "KafkaError")]
    /\ events' = IF ok THEN [events EXCEPT ![job[j].sha256] = @ + 1] ELSE events
    /\ UNCHANGED <<db_unique, records>>
    /\ UNCHANGED <<cvars, rvars, evars, hvars>>

IngestionNext ==
    \/ \E j \in JobIds, sha256 \in Sha256s : ingest(j, sha256)
    \/ \E j \in JobIds : get_content_hash_by_sha256(j)
    \/ \E j \in JobIds, ok \in BOOLEAN : extract(j, ok)
    \/ \E j \in JobIds : create_content_hash(j)
    \/ \E j \in JobIds, ok \in BOOLEAN : send(j, ok)

-----------------------------------------------------------------------------
(* Specifications *)

\* the classification service with its own sessions (the legacy load path)
InitClassify ==
    /\ ClassifierInit
    /\ RegistryInit({}, {})
    /\ EnsembleInit
    /\ HashingInit
    /\ IngestionInit

SpecClassify == InitClassify /\ [][ClassifierNext]_vars

\* one registry and the requests that use it; the classification service is
\* constructed and left alone
Init ==
    /\ ClassifierInit
    /\ settings = [csam_alert_threshold |-> 85, confidence_threshold |-> 70,
                   nsfl_model_path |-> TRUE]
    /\ RegistryInit({"a"}, {"t1"})
    /\ EnsembleInit
    /\ HashingInit
    /\ IngestionInit

Next == RegistryNext

Spec == Init /\ [][Next]_vars

\* one registry with the catalog models and two requests whose predict calls
\* can be pending together
InitOverlap ==
    /\ ClassifierInit
    /\ settings = [csam_alert_threshold |-> 85, confidence_threshold |-> 70,
                   nsfl_model_path |-> TRUE]
    /\ RegistryInit({"a"}, {"t1", "t2"})
    /\ EnsembleInit
    /\ HashingInit
    /\ IngestionInit

NextOverlap ==
    \/ register_builtins("a")
    \/ \E ok \in BOOLEAN : load_model("a", "yahoo_open_nsfw", ok)
    \/ LoadDelivered
    \/ unload_model("a", "yahoo_open_nsfw")
    \/ QueryDelivered
    \/ \E t \in TaskIds : PredictCall(t, "a", "yahoo_open_nsfw")
    \/ \E t \in TaskIds, ok \in BOOLEAN, e \in ElapsedMs : predict(t, ok, e)
    \/ \E t \in TaskIds : PredictDelivered(t)

SpecOverlap == InitOverlap /\ [][NextOverlap]_vars

\* one registry, every operation that takes a model id, and the queries
InitQueries ==
    /\ ClassifierInit
    /\ settings = [csam_alert_threshold |-> 85, confidence_threshold |-> 70,
                   nsfl_model_path |-> TRUE]
    /\ RegistryInit({"a"}, {"t1"})
    /\ EnsembleInit
    /\ HashingInit
    /\ IngestionInit

\* the model ids passed to the operations: a catalog model, a model of
\* another backend type and an id that is never registered
QueryIds == {"yahoo_open_nsfw", "custom_model", "unknown_model"}

QueryElapsedMs == {3}

\* the task filters passed to the queries, "None" for no filter
QueryTasks == {"None", "nsfw_detection"}

NextQueries ==
    \/ register_builtins("a")
    \/ \E id \in QueryIds \ {"unknown_model"} : register("a", id)
    \/ \E id \in QueryIds, ok \in BOOLEAN : load_model("a", id, ok)
    \/ LoadDelivered
    \/ \E id \in QueryIds : unload_model("a", id)
    \/ \E id \in QueryIds : health_check("a", id)
    \/ \E for_task \in QueryTasks, enabled_only \in BOOLEAN :
         list_models("a", for_task, enabled_only)
    \/ \E for_task \in QueryTasks \ {"None"} : GetModelsForTask("a", for_task)
    \/ QueryDelivered
    \/ \E t \in TaskIds, id \in QueryIds : PredictCall(t, "a", id)
    \/ \E t \in TaskIds, ok \in BOOLEAN, e \in QueryElapsedMs : predict(t, ok, e)
    \/ \E t \in TaskIds : PredictDelivered(t)

SpecQueries == InitQueries /\ [][NextQueries]_vars

\* two registries over the one catalog and an ensemble classifier on each:
\* registry a registers, loads and unloads the NSFW models, registry b only
\* registers the catalog
InitEnsemble ==
    /\ ClassifierInit
    /\ settings = [csam_alert_threshold |-> 85, confidence_threshold |-> 70,
                   nsfl_model_path |-> TRUE]
    /\ RegistryInit({"a", "b"}, {})
    /\ EnsembleInit
    /\ HashingInit
    /\ IngestionInit

EnsembleLoadIds == {"nsfw_detector_v3", "yahoo_open_nsfw"}

\* elapsed_ms of the inferences of an ensemble call
EnsembleElapsedMs == {3}

\* the ensemble calls made: every task and method with decodable content on
\* registry a; the default method on registry b and for content that does not
\* decode
EnsembleCalls ==
    [r : {"a"}, content_ok : {TRUE}, for_task : EnsembleTasks, method : EnsembleMethods]
      \cup [r : {"a"}, content_ok : {FALSE}, for_task : {"nsfw_detection"},
            method : {"weighted_average"}]
      \cup [r : {"b"}, content_ok : {TRUE}, for_task : EnsembleTasks,
            method : {"weighted_average"}]

NextEnsemble ==
    \/ \E r \in Registries : register_builtins(r)
    \/ register("a", "yahoo_open_nsfw")
    \/ \E id \in EnsembleLoadIds, ok \in BOOLEAN : load_model("a", id, ok)
    \/ LoadDelivered
    \/ \E id \in EnsembleLoadIds : unload_model("a", id)
    \/ QueryDelivered
    \/ \E c \in EnsembleCalls, elapsed_ms \in EnsembleElapsedMs :
         \E a1 \in AnswerChoices(c.r, c.content_ok, c.for_task, "nsfw_detector_v3"),
            a2 \in AnswerChoices(c.r, c.content_ok, c.for_task, "yahoo_open_nsfw"),
            a3 \in AnswerChoices(c.r, c.content_ok, c.for_task, "nudenet_v3") :
           classify_ensemble(c.r, c.content_ok, c.for_task, c.method,
                             Answers(a1, a2, a3), elapsed_ms)
    \/ EnsembleDelivered

SpecEnsemble == InitEnsemble /\ [][NextEnsemble]_vars

\* the aggregation step of classify_ensemble on its own: Init draws the list
\* of successful model results, one aggregation is applied to it

\* raw outputs per model: in range, short, negative (logits), all below -1
AggregateAnswers(id) ==
    IF id = "nsfw_detector_v3"
    THEN {<<90, 5, 0, 0, 0, 5>>, <<10, 20, 0, 0, 0, 70>>, <<>>,
          <<-50, -20, -30, -30, -30, -10>>, <<-200, -300, -200, -200, -200, -150>>}
    ELSE IF id = "yahoo_open_nsfw"
    THEN {<<80, 20>>, <<10, 90>>, <<-30, 40>>}
    ELSE IF id = "nudenet_v3"
    THEN {<<90, 0, 0, 0, 0, 0, 0, 0, 0, 0, 0, 0, 0>>,
          <<5, 0, 95, 0, 0, 0, 0, 0, 0, 0, 0, 0, 0>>}
    ELSE {<<12, 90, 40>>}

\* the results of one model: none when it was skipped or failed
ResultChoices(id) == {<<>>} \cup { <<ModelResult(id, o)>> : o \in AggregateAnswers(id) }

\* model_results as the loop can leave it, non-empty: the NSFW models that
\* succeeded, in catalog order, or the age model alone
AggregateInputs ==
    { m1 \o m2 \o m3 : m1 \in ResultChoices("nsfw_detector_v3"),
                       m2 \in ResultChoices("yahoo_open_nsfw"),
                       m3 \in ResultChoices("nudenet_v3") }
      \cup ResultChoices("age_estimator_v2")

InitAggregate ==
    /\ ClassifierInit
    /\ settings = [csam_alert_threshold |-> 85, confidence_threshold |-> 70,
                   nsfl_model_path |-> TRUE]
    /\ RegistryInit({}, {})
    /\ eres = Idle
    /\ HashingInit
    /\ IngestionInit
    /\ \E inputs \in AggregateInputs \ {<<>>} :
         ecall = [registry |-> "none", inputs |-> inputs]

\* ensemble.py classify_ensemble from the dispatch on method to the return
aggregate(method) ==
    /\ eres = Idle
    /\ eres' = EnsembleResult(Static[ecall.inputs[1].model_id].task,
                              Aggregate(ecall.inputs, method), ecall.inputs,
                              _compute_agreement(ecall.inputs), method)
    /\ UNCHANGED <<ecall, rvars, cvars, hvars, ivars>>

NextAggregate == \E method \in EnsembleMethods : aggregate(method)

SpecAggregate == InitAggregate /\ [][NextAggregate]_vars

\* the hashing service under every configuration
InitHashing ==
    /\ ClassifierInit
    /\ settings = [csam_alert_threshold |-> 85, confidence_threshold |-> 70,
                   nsfl_model_path |-> TRUE]
    /\ RegistryInit({}, {})
    /\ EnsembleInit
    /\ HashingInitAny
    /\ IngestionInit

SpecHashing == InitHashing /\ [][HashingNext]_vars

\* the Hamming distance utilities of the hashing service
InitHamming ==
    /\ ClassifierInit
    /\ settings = [csam_alert_threshold |-> 85, confidence_threshold |-> 70,
                   nsfl_model_path |-> TRUE]
    /\ RegistryInit({}, {})
    /\ EnsembleInit
    /\ HashingInit
    /\ IngestionInit

SpecHamming == InitHamming /\ [][HammingNext]_vars

\* ingest calls that can overlap, on either kind of database
InitIngestion ==
    /\ ClassifierInit
    /\ settings = [csam_alert_threshold |-> 85, confidence_threshold |-> 70,
                   nsfl_model_path |-> TRUE]
    /\ RegistryInit({}, {})
    /\ EnsembleInit
    /\ HashingInit
    /\ IngestionInitAny

SpecIngestion == InitIngestion /\ [][IngestionNext]_vars

-----------------------------------------------------------------------------
(* Claims about AIClassifierService.classify *)

Returned == cres.status = "returned"

\* the raw outputs the returned classification was computed from
InExplicit   == call.nsfw.output[1]
InSuggestive == call.nsfw.output[2]
InViolenceGraphic == call.nsfw.output[3]
InViolenceMild    == call.nsfw.output[4]
InDrugs      == call.nsfw.output[5]
InFace       == call.age.output[3] >= 50
InAge        == call.age.output[1]
InConfidence == call.age.output[2]
InMinorLikely == InFace /\ InAge < 18 /\ InConfidence > 60
InSceneRisk  == Max(call.scene.output[1], Max(call.scene.output[2], call.scene.output[3]))

AlertReached == cres.csam_score >= settings.csam_alert_threshold * (CsamDen \div 100)
Over(score)  == score > settings.confidence_threshold

\* C1: the primary classification follows the first-match-wins priority order:
\* csam_score >= csam_alert_threshold gives CSAM_SUSPECT whatever the NSFW
\* scores are; otherwise the first of explicit_sexual, violence_graphic,
\* violence_mild, suggestive, drugs strictly above confidence_threshold
\* decides, and SAFE is returned only when none of them is above it.
C1_PriorityOrder ==
    Returned =>
        /\ AlertReached => cres.primary_classification = "csam_suspect"
        /\ ~AlertReached =>
            /\ Over(InExplicit) => cres.primary_classification = "explicit_sexual"
            /\ ~Over(InExplicit) /\ Over(InViolenceGraphic)
                 => cres.primary_classification = "violence_graphic"
            /\ ~Over(InExplicit) /\ ~Over(InViolenceGraphic) /\ Over(InViolenceMild)
                 => cres.primary_classification = "violence_mild"
            /\ ~Over(InExplicit) /\ ~Over(InViolenceGraphic) /\ ~Over(InViolenceMild)
               /\ Over(InSuggestive)
                 => cres.primary_classification = "suggestive"
            /\ ~Over(InExplicit) /\ ~Over(InViolenceGraphic) /\ ~Over(InViolenceMild)
               /\ ~Over(InSuggestive) /\ Over(InDrugs)
                 => cres.primary_classification = "drugs"
        /\ cres.primary_classification = "safe" =>
            /\ ~AlertReached
            /\ \A i \in 1..5 : ~Over(call.nsfw.output[i])

\* a CSAM_SUSPECT verdict returned although explicit_sexual is above the
\* confidence threshold (and, separately reachable, a score equal to the
\* threshold that does not count as above it)
C1_Witness ==
    /\ Returned
    /\ cres.primary_classification = "csam_suspect"
    /\ Over(InExplicit)
    /\ settings.csam_alert_threshold = 85

\* C2: requires_human_review is true exactly when the classification is
\* CSAM_SUSPECT, or csam_score > 0.5, or a likely minor is present with
\* nsfw_score > 0.3.
C2_ReviewRouting ==
    Returned =>
        ( cres.requires_human_review
          <=> \/ cres.primary_classification = "csam_suspect"
              \/ 2 * cres.csam_score > CsamDen
              \/ /\ cres.age_estimation.present
                 /\ cres.age_estimation.is_minor_likely
                 /\ cres.nsfw_score > 30 )

\* a SAFE result with csam_score = 0.51 and no likely minor, routed to review
C2_Witness ==
    /\ Returned
    /\ cres.primary_classification = "safe"
    /\ cres.csam_score * 100 = 51 * CsamDen
    /\ ~(cres.age_estimation.present /\ cres.age_estimation.is_minor_likely)
    /\ cres.requires_human_review

\* the composite score of the stated formula, as a numerator over CsamDen
CsamFormula ==
    LET minor == IF InMinorLikely THEN InConfidence * Max(0, 18 - InAge) ELSE 0
        sum   == 35 * InExplicit * 1800 + 40 * minor * 100
                 + 15 * InSceneRisk * 1800 + 10 * InSuggestive * minor
    IN  IF sum < 0 THEN 0 ELSE IF sum > CsamDen THEN CsamDen ELSE sum

\* a numerator over CsamDen rounded to four decimals, in ten-thousandths
Round4(n) == (n + 900) \div 1800

Example1 ==
    /\ InExplicit = 100 /\ InSuggestive = 0
    /\ InFace /\ InAge = 10 /\ InConfidence = 100
    /\ InSceneRisk = 0

Example2 ==
    /\ InExplicit = 90
    /\ ~InFace
    /\ InSceneRisk = 10

\* C3 as stated: the composite formula, with the second example giving 0.3375
C3_AsStated ==
    Returned =>
        /\ cres.csam_score = CsamFormula
        /\ Example1 => Round4(cres.csam_score) = 5278
        /\ Example2 => Round4(cres.csam_score) = 3375

\* C3: csam_score = clamp(0.35*explicit + 0.40*minor_score + 0.15*scene_risk
\* + 0.10*(suggestive*minor_score), 0, 1) with minor_score = confidence *
\* max(0, (18-age)/18) for a likely minor and 0 otherwise, scene_risk the
\* maximum of the three risky scenes; explicit=1.0, age=10, confidence=1.0
\* gives 0.5278 and explicit=0.9 with no face and scene_risk=0.1 gives 0.33.
C3_CompositeScore ==
    Returned =>
        /\ cres.csam_score = CsamFormula
        /\ Example1 => Round4(cres.csam_score) = 5278
        /\ Example2 => cres.csam_score * 100 = 33 * CsamDen

\* the second example's inputs met by a returned classification
C3_Witness == Returned /\ Example2 /\ InSuggestive = 5

-----------------------------------------------------------------------------
(* Claims about ModelRegistry *)

\* every descriptor object there is: the catalog objects and the descriptors
\* the registries own
AllDescriptors ==
    { builtin[i] : i \in DOMAIN builtin }
    \cup UNION { { models[r][k].d : k \in 1..Len(models[r]) } : r \in Registries }

Done(t) == task[t].pc = "done"

\* the descriptor the finished call of t was about, as it is now
Target(t) == Counters(task[t].registry, task[t].model_id)

\* C4 as stated: predict never dispatches an inference to a model whose
\* descriptor has loaded = false, re-registration of a loaded id included.
C4_NeverDispatchedUnloaded ==
    \A t \in TaskIds : Done(t) /\ task[t].dispatched => task[t].loaded_at_dispatch

\* the running mean of the source: new_avg = (old_avg*(n-1) + elapsed)/n
IsRunningMean(new, old, n, elapsed_ms) ==
    new[1] * (old[2] * n) = (old[1] * (n - 1) + elapsed_ms * old[2]) * new[2]

\* C5: a successful predict adds exactly 1 to total_inferences of its model
\* and sets avg_latency_ms to (old_avg*(n-1) + elapsed)/n, so every descriptor
\* has total_inferences = number of its successful predicts and avg_latency_ms
\* = their mean elapsed time; no other descriptor's counters move.
C5_RunningMean ==
    /\ \A d \in AllDescriptors :
        /\ d.total_inferences = d.served
        /\ d.avg_latency_ms[1] * d.served = d.served_ms * d.avg_latency_ms[2]
        /\ d.served = 0 => d.avg_latency_ms = <<0, 1>>
    /\ \A t \in TaskIds :
        Done(t) /\ task[t].outcome = "value" =>
            /\ Target(t).total_inferences = task[t].before.total_inferences + 1
            /\ IsRunningMean(Target(t).avg_latency_ms, task[t].before.avg_latency_ms,
                             Target(t).total_inferences, task[t].elapsed_ms)

\* two successful predicts of 1 ms and 3 ms on one model, another model untouched
C5_Witness ==
    \E t \in TaskIds :
        /\ Done(t) /\ task[t].outcome = "value"
        /\ Target(t).total_inferences = 2
        /\ Target(t).avg_latency_ms = <<2, 1>>
        /\ \E d \in AllDescriptors : d.loaded /\ d.total_inferences = 0

\* C6: a failing predict (model not loaded, or the backend raising) ends in
\* an error, never in a value, and leaves total_inferences, avg_latency_ms
\* and last_inference of the model as they were.
C6_FailureLeavesCounters ==
    \A t \in TaskIds :
        Done(t) =>
            /\ task[t].model_id \notin sessions[task[t].registry]
                 => task[t].outcome = "RuntimeError"
            /\ task[t].dispatched /\ ~task[t].backend_ok
                 => task[t].outcome = "BackendError"
            /\ task[t].outcome # "value" =>
                 /\ task[t].outcome \in {"RuntimeError", "BackendError"}
                 /\ Target(t).total_inferences = task[t].before.total_inferences
                 /\ Target(t).avg_latency_ms = task[t].before.avg_latency_ms
                 /\ Target(t).last_inference = task[t].before.last_inference

\* the backend raised on a model that already has one inference counted
C6_Witness ==
    \E t \in TaskIds :
        /\ Done(t) /\ task[t].outcome = "BackendError"
        /\ task[t].before.total_inferences = 1
        /\ Target(t).last_inference = 1

\* C7: predict calls for one model that are pending together update the
\* counters atomically: each successful one adds exactly 1 to the count the
\* others left and folds its elapsed time into the mean they left, so none
\* is lost or counted twice.
C7_OverlapAtomic ==
    \A t \in TaskIds :
        Done(t) /\ task[t].overlapped /\ task[t].outcome = "value" =>
            /\ Target(t).total_inferences = task[t].before.total_inferences + 1
            /\ Target(t).total_inferences = Target(t).served
            /\ Target(t).avg_latency_ms[1] * Target(t).served
                 = Target(t).served_ms * Target(t).avg_latency_ms[2]

\* two calls were pending together and both returned a value
C7_Witness ==
    \E t \in TaskIds :
        /\ Done(t) /\ task[t].overlapped /\ task[t].outcome = "value"
        /\ task[t].peer_served = 1
        /\ Target(t).total_inferences = 2

-----------------------------------------------------------------------------
(* Claims about EnsembleClassifier.classify_ensemble *)

EReturned == eres.status = "returned"

\* the enabled and loaded models of the called registry for the called task;
\* the call itself changes neither the registrations nor the loaded flags
Applicable ==
    { id \in Keys(models[ecall.registry]) :
        /\ Static[id].enabled
        /\ Static[id].task = ecall.task
        /\ Descriptor(Store, ecall.registry, id).loaded }

\* the log positions at which preprocessing or predict was run for a model
Attempts(id) ==
    { i \in DOMAIN ecall.log : ecall.log[i].model_id = id /\ ecall.log[i].step # "skipped" }

FailedModel(id) ==
    \E i \in Attempts(id) : ecall.log[i].step \in {"preprocess_failed", "predict_failed"}

SucceededModel(id) == \E i \in Attempts(id) : ecall.log[i].step = "ok"

\* the model ids of the per-model breakdown, in its order
BreakdownIds == [ i \in DOMAIN eres.model_results |-> eres.model_results[i].model_id ]

\* the ids of the called registry in dict order
RegistryOrder ==
    [ i \in DOMAIN models[ecall.registry] |-> models[ecall.registry][i].model_id ]

\* C8 as stated: with zero enabled and loaded models for the task, whether no
\* enabled model carries the task or none of those that do is loaded,
\* classify_ensemble returns final_scores = {} with agreement_score = 1.0 and
\* invokes no model.
C8_ZeroApplicable ==
    EReturned /\ Applicable = {} =>
        /\ eres.final_scores = {}
        /\ eres.agreement_score = Exactly(1, 1)
        /\ \A i \in DOMAIN ecall.log : ecall.log[i].step = "skipped"

\* C9: when at least one enabled and loaded model exists for the task and
\* every one of them fails in preprocessing or predict, classify_ensemble
\* returns, without raising, final_scores = {}, an empty breakdown and
\* agreement_score = 0.0, not the 1.0 of the no-models return.
C9_AllFailed ==
    ecall # NoCall /\ Applicable # {} /\ (\A id \in Applicable : FailedModel(id)) =>
        /\ EReturned
        /\ eres.final_scores = {}
        /\ eres.model_results = <<>>
        /\ eres.agreement_score = Exactly(0, 1)
        /\ eres.agreement_score # NoModels(ecall.task, ecall.method).agreement_score

\* two applicable models, session.run raising for both
C9_Witness ==
    /\ EReturned
    /\ Cardinality(Applicable) = 2
    /\ \A id \in Applicable :
         \E i \in Attempts(id) :
            ecall.log[i].step = "predict_failed" /\ ecall.log[i].dispatched
    /\ eres.agreement_score = Exactly(0, 1)

\* the sum of the configured weights of the models in the breakdown
BreakdownWeight ==
    SeqSum([ i \in DOMAIN eres.model_results |-> Static[BreakdownIds[i]].weight ])

\* the weighted sum of the breakdown's normalized scores for one category
BreakdownSum(category) ==
    SeqSum([ i \in DOMAIN eres.model_results |->
               NormGet(eres.model_results[i].normalized_scores, category)
                 * Static[BreakdownIds[i]].weight ])

\* C10: a failure of one model does not abort the run: every enabled and
\* loaded model for the task is run exactly once whatever the others did, the
\* breakdown holds exactly the models that succeeded, once each and in
\* registry order, and the aggregation counts only those: the weights summed
\* and the votes counted are those of the models in the breakdown.
C10_FailureIsolated ==
    EReturned =>
        /\ \A id \in Applicable : Cardinality(Attempts(id)) = 1
        /\ \A id \in Keys(models[ecall.registry]) \ Applicable : Attempts(id) = {}
        /\ LET Succeeded(id) == id \in Applicable /\ SucceededModel(id)
           IN  BreakdownIds = SelectSeq(RegistryOrder, Succeeded)
        /\ \A i \in DOMAIN eres.model_results : ~FailedModel(BreakdownIds[i])
        /\ eres.method \notin {"majority_vote", "max_confidence"} =>
             \A f \in eres.final_scores :
                f.score[1] * (BreakdownWeight * 1000) = BreakdownSum(f.category) * f.score[2]
        /\ eres.method = "majority_vote" =>
             \A f \in eres.final_scores :
                \E k \in 1..Len(eres.model_results) :
                    f.score = Fraction(k, Len(eres.model_results))
        /\ eres.method = "max_confidence" /\ eres.model_results # <<>> =>
             \E i \in DOMAIN eres.model_results :
                eres.final_scores =
                    { [category |-> e.category, score |-> Fraction(e.score, 1000)] :
                      e \in { eres.model_results[i].normalized_scores[k] :
                              k \in DOMAIN eres.model_results[i].normalized_scores } }

\* the first applicable model of the registry failed in predict, the second was
\* still run and alone makes up the breakdown and the weighted average
C10_Witness ==
    /\ EReturned
    /\ eres.method = "weighted_average"
    /\ Cardinality(Applicable) = 2
    /\ Len(ecall.log) >= 2
    /\ ecall.log[1].step = "predict_failed"
    /\ ecall.log[2].step = "ok"
    /\ BreakdownIds = <<ecall.log[2].model_id>>
    /\ [category |-> "explicit_sexual", score |-> <<9, 10>>] \in eres.final_scores

\* the categories present in the normalized output of any model of the breakdown
BreakdownCategories ==
    UNION { CategoriesOf(eres.model_results[i].normalized_scores) :
            i \in DOMAIN eres.model_results }

\* a model of weight 0.6 reporting explicit = 0.8 and one of weight 0.4
\* reporting nothing
ExampleTwoModels ==
    << [model_id |-> "A", weight |-> 60,
        normalized_scores |-> <<[category |-> "explicit", score |-> 800]>>],
       [model_id |-> "B", weight |-> 40, normalized_scores |-> <<>>] >>

\* C11: under weighted_average final_scores has exactly the categories present
\* in some successful model's normalized output, and each score is the sum of
\* score * weight over the successful models (0 for a model not reporting the
\* category) divided by the sum of the weights of all successful models;
\* weights 0.6/0.4 with only the first model reporting explicit = 0.8 give 0.48.
C11_WeightedAverage ==
    /\ _weighted_average(ExampleTwoModels)
         = { [category |-> "explicit", score |-> <<12, 25>>] }
    /\ EReturned /\ eres.method = "weighted_average" /\ eres.model_results # <<>> =>
         /\ { f.category : f \in eres.final_scores } = BreakdownCategories
         /\ Cardinality(eres.final_scores) = Cardinality(BreakdownCategories)
         /\ \A f \in eres.final_scores :
              f.score = Fraction(BreakdownSum(f.category), BreakdownWeight * 1000)

\* two models succeeded, nsfw_detector_v3 reporting no category at all and
\* yahoo_open_nsfw explicit_sexual = 0.56: 0.56 * 0.30 / (0.30 + 0.30) = 0.28
C11_Witness ==
    /\ EReturned /\ eres.method = "weighted_average"
    /\ Len(eres.model_results) = 2
    /\ \E i \in DOMAIN eres.model_results : eres.model_results[i].normalized_scores = <<>>
    /\ [category |-> "explicit_sexual", score |-> <<7, 25>>] \in eres.final_scores

-----------------------------------------------------------------------------
(* Claims about the aggregation methods and the agreement score *)

Results == eres.model_results

\* the successful models whose normalized output holds at least one category
Voters == { i \in DOMAIN Results : Results[i].normalized_scores # <<>> }

\* the highest normalized score of a result, 0.0 for an empty output
Highest(i) == TopScore(Results[i].normalized_scores)

\* the categories of a result that carry its highest score
HighestCategories(i) ==
    { c \in CategoriesOf(Results[i].normalized_scores) :
        NormGet(Results[i].normalized_scores, c) = Highest(i) }

RECURSIVE VotesIn(_, _)
\* the votes behind a set of scores votes/total, added up
VotesIn(scores, total) ==
    IF scores = {} THEN 0
    ELSE LET f == CHOOSE x \in scores : TRUE
         IN  f.score[1] * (total \div f.score[2]) + VotesIn(scores \ {f}, total)

\* C12 as stated: under majority_vote every successful model casts exactly one
\* vote, for its own highest-scoring normalized category, each score is
\* votes / number of successful models, and so the scores sum to 1, also with
\* a model whose category list and normalized output are empty.
C12_MajorityVoteSumsToOne ==
    EReturned /\ eres.method = "majority_vote" =>
        /\ \A i \in DOMAIN Results :
             \E f \in eres.final_scores : f.category \in HighestCategories(i)
        /\ \A f \in eres.final_scores :
             \E k \in 1..Len(Results) : f.score = Fraction(k, Len(Results))
        /\ VotesIn(eres.final_scores, Len(Results)) = Len(Results)

\* the normalized score vector of a result as final_scores holds it
VectorOf(i) ==
    { [category |-> Results[i].normalized_scores[k].category,
       score |-> Fraction(Results[i].normalized_scores[k].score, 1000)] :
      k \in DOMAIN Results[i].normalized_scores }

\* C13 as stated: under max_confidence final_scores is the unchanged
\* normalized vector of the first successful model, in registry order, whose
\* highest normalized score is >= that of every other successful model, for
\* every output, scores all <= 0 or below -1 included.
C13_MaxConfidenceSelects ==
    EReturned /\ eres.method = "max_confidence" =>
        \E i \in DOMAIN Results :
            /\ eres.final_scores = VectorOf(i)
            /\ \A j \in DOMAIN Results : Highest(j) <= Highest(i)
            /\ \A j \in 1..(i - 1) : Highest(j) < Highest(i)

\* the top category of every voter, and how often the most common one occurs
TopCategories == { TopCategory(Results[i].normalized_scores) : i \in Voters }

MostCommonCount ==
    MaxDefault({ Cardinality({ i \in Voters :
                                 TopCategory(Results[i].normalized_scores) = c }) :
                 c \in TopCategories }, 0)

\* C14 as stated: agreement_score is 1.0 with exactly one successful model;
\* with several whose top categories are not all the same it is the count of
\* the most common top category over the number of successful models, every
\* successful model counted; with one shared top category and identical top
\* scores it is 1.0; and it always lies in [0,1].
C14_Agreement ==
    EReturned /\ Results # <<>> =>
        /\ Len(Results) = 1 => eres.agreement_score = Exactly(1, 1)
        /\ Len(Results) > 1 /\ Cardinality(TopCategories) > 1 =>
             eres.agreement_score = Exactly(MostCommonCount, Len(Results))
        /\ Len(Results) > 1 /\ Voters = DOMAIN Results /\ Cardinality(TopCategories) = 1
             /\ (\A i, j \in DOMAIN Results : Highest(i) = Highest(j)) =>
             eres.agreement_score = Exactly(1, 1)
        /\ IF eres.agreement_score.kind = "exact"
           THEN /\ 0 <= eres.agreement_score.value[1]
                /\ eres.agreement_score.value[1] <= eres.agreement_score.value[2]
           ELSE /\ 0 < eres.agreement_score.value[1]
                /\ eres.agreement_score.value[1] < eres.agreement_score.value[2]

-----------------------------------------------------------------------------
(* Claims about the stages of AIClassifierService.classify *)

MandatoryLoaded ==
    nsfw_model = "session" /\ age_model = "session" /\ scene_model = "session"

\* C15 as stated: with the NSFW, age and scene models loaded classify always
\* returns a ClassificationResult; a failure of the NSFL, age or scene stage
\* does not reach the caller, only a failure of the NSFW stage may.
C15_OnlyNsfwEscalates ==
    MandatoryLoaded /\ cres.status = "raised" =>
        StageFails(nsfw_model, call.nsfw, Len(nsfw_categories))

\* what classify returns for the same NSFW, age and scene outputs when the
\* NSFL model is present and answers with output
WithNsfl(output) ==
    ClassificationResult(_run_nsfw_detection(call.nsfw.output),
                         _run_nsfl_detection("session", output),
                         _run_age_estimation(call.age.output),
                         _run_scene_classification(call.scene.output))

NsflOutputs == { a.output : a \in { x \in NsflAnswers : ~x.raised } }

-----------------------------------------------------------------------------
(* Claims about PerceptualHashService *)

HashesComputed == hcall.op = "compute_all_hashes"

\* how often an algorithm's tag occurs in errors
ErrorCount(tag) == Cardinality({ i \in DOMAIN hres.errors : hres.errors[i] = tag })

\* one algorithm's part of the claim: attempted is whether the algorithm is
\* enabled, outcome what its computation did, fields the fields it fills
AlgorithmSettled(attempted, outcome, tag, fields) ==
    IF attempted /\ outcome.raised
    THEN (\A f \in fields : ~hres[f].present) /\ ErrorCount(tag) = 1
    ELSE IF attempted
    THEN (\A f \in fields : hres[f].present) /\ ErrorCount(tag) = 0
    ELSE (\A f \in fields : ~hres[f].present) /\ ErrorCount(tag) = 0

PhotodnaAttempted == hsettings.enable_photodna /\ hsettings.photodna_client

\* C17: compute_all_hashes never raises and settles each algorithm on its
\* own: a failing enabled algorithm leaves its field absent and adds exactly
\* one error with its tag, every other enabled algorithm populates its field,
\* a disabled one gives neither field nor error, and errors holds nothing else.
C17_HashesIndependent ==
    HashesComputed =>
        /\ hres.status = "returned"
        /\ AlgorithmSettled(hsettings.enable_phash, hcall.phash, "phash", {"phash"})
        /\ hsettings.enable_phash /\ ~hcall.phash.raised =>
             hres.phash = Present(hcall.phash.value)
        /\ AlgorithmSettled(hsettings.enable_pdq, hcall.pdq, "pdq",
                            {"pdq_hash", "pdq_quality"})
        /\ hsettings.enable_pdq /\ ~hcall.pdq.raised =>
             /\ hres.pdq_hash = Present(hcall.pdq.value[1])
             /\ hres.pdq_quality = Present(hcall.pdq.value[2])
        /\ AlgorithmSettled(PhotodnaAttempted, hcall.photodna, "photodna",
                            {"photodna_hash"})
        /\ PhotodnaAttempted /\ ~hcall.photodna.raised =>
             hres.photodna_hash = Present(hcall.photodna.value)
        /\ Len(hres.errors) = ErrorCount("phash") + ErrorCount("pdq") + ErrorCount("photodna")

\* only pHash throws: pdq and photodna are populated and errors is one entry
\* tagged phash
C17_Witness ==
    /\ HashesComputed
    /\ hcall.phash.raised /\ ~hcall.pdq.raised /\ ~hcall.photodna.raised
    /\ PhotodnaAttempted
    /\ hres.pdq_hash.present /\ hres.photodna_hash.present /\ ~hres.phash.present
    /\ hres.errors = <<"phash">>

HammingCalled == hcall.op \in {"hamming_distance_hex", "hamming_distance_bytes"}

\* the value of one element of a hash and the bits it holds
ElementValue(x) == IF hcall.op = "hamming_distance_hex" THEN HexValue(x) ELSE x
ElementBits == IF hcall.op = "hamming_distance_hex" THEN 4 ELSE 8

RECURSIVE Power2(_)
Power2(k) == IF k = 0 THEN 1 ELSE 2 * Power2(k - 1)

Bit(v, k) == (v \div Power2(k)) % 2

\* the positions (element, bit) at which the two arguments differ
DifferingBits ==
    { <<i, k>> \in (DOMAIN hcall.hash1) \X (0..(ElementBits - 1)) :
        Bit(ElementValue(hcall.hash1[i]), k) # Bit(ElementValue(hcall.hash2[i]), k) }

\* the other call on the same arguments, and the call with the arguments swapped
Distance(a, b) ==
    IF hcall.op = "hamming_distance_hex" THEN HammingHex(a, b) ELSE HammingBytes(a, b)

\* C18: both Hamming distances return the number of differing bits of two
\* arguments of equal length, so distance(a,a) = 0 and distance(a,b) =
\* distance(b,a); for arguments of different length they raise an error
\* and return no number.
C18_HammingDistance ==
    HammingCalled =>
        IF Len(hcall.hash1) = Len(hcall.hash2)
        THEN /\ hres.status = "returned"
             /\ hres.value = Cardinality(DifferingBits)
             /\ hcall.hash1 = hcall.hash2 => hres.value = 0
             /\ Distance(hcall.hash2, hcall.hash1) = hres
        ELSE /\ hres.status = "raised"
             /\ Distance(hcall.hash2, hcall.hash1).status = "raised"

\* hex hashes a7 and F0 differ in five bits
C18_Witness ==
    /\ hcall.op = "hamming_distance_hex"
    /\ hcall.hash1 = <<"a", "7">>
    /\ hcall.hash2 = <<"F", "0">>
    /\ hres = HashReturned(5)

-----------------------------------------------------------------------------
(* Claims about the order of the stages inside one classify call *)

\* a stage whose model invocation was started carries the answer it met
Started(stage_call) == stage_call # NotReached

\* C19 as stated: within one classify call the model invocations of the
\* NSFW, NSFL, age and scene stages are started independently of one
\* another, so when the call has settled every loaded model was invoked,
\* whichever stage failed.
C19_StagesStartedIndependently ==
    cres # Idle =>
        /\ nsfw_model = "session" => Started(call.nsfw)
        /\ nsfl_model = "session" => Started(call.nsfl)
        /\ age_model = "session" => Started(call.age)
        /\ scene_model = "session" => Started(call.scene)

-----------------------------------------------------------------------------
(* Claims about the lifecycle of a model in ModelRegistry *)

\* the model the last load_model call was about is registered
LoadedRegistered == lres.model_id \in Keys(models[lres.registry])

\* a predict for that model, issued next, reaches the inference backend
NextPredictDispatched ==
    \A backend_ok \in BOOLEAN, elapsed_ms \in ElapsedMs :
        Predict(Store, lres.registry, lres.model_id, backend_ok, elapsed_ms, clock + 1,
                [total_inferences |-> 0, avg_latency_ms |-> <<0, 1>>]).dispatched

\* C20 as stated, for load_model: whenever load_model(id, device) returns
\* without error for a registered model of any backend type, a session
\* exists for it, its descriptor has loaded = true and a following predict
\* is dispatched; when load_model fails, the session and the loaded flag are
\* as they were before the call.
C20_LoadLifecycle ==
    /\ lres.status = "returned" /\ LoadedRegistered =>
         /\ lres.model_id \in sessions[lres.registry]
         /\ Descriptor(Store, lres.registry, lres.model_id).loaded
         /\ NextPredictDispatched
    /\ lres.status = "raised" =>
         /\ (lres.model_id \in sessions[lres.registry]) = lres.session_before
         /\ LoadedRegistered =>
              Descriptor(Store, lres.registry, lres.model_id).loaded = lres.loaded_before

-----------------------------------------------------------------------------
(* Claims about unregistered model ids *)

Unregistered(r, id) == id \notin Keys(models[r])

\* preprocessing methods a caller can pass, the four known ones and others
MethodsPassed == PreprocessingMethods \cup {"torch", "IMAGENET", ""}

\* C21 as stated: load_model, unload_model, predict and health_check surface
\* an error to the caller when the id is not registered, never a normal
\* return or a status value, and leave the registry as it was; preprocess
\* raises for every method that is none of imagenet, caffe, raw_0_1, clip.
C21_UnregisteredIdRaises ==
    /\ lres.status # "idle" /\ Unregistered(lres.registry, lres.model_id) =>
         /\ lres.status = "raised"
         /\ (lres.model_id \in sessions[lres.registry]) = lres.session_before
    /\ qres.status # "idle" /\ qres.op \in {"unload_model", "health_check"}
         /\ Unregistered(qres.registry, qres.model_id) =>
         qres.status = "raised"
    /\ \A t \in TaskIds :
         Done(t) /\ Unregistered(task[t].registry, task[t].model_id) =>
             /\ task[t].outcome # "value"
             /\ ~task[t].dispatched
    /\ \A method \in MethodsPassed \ PreprocessingMethods, content_ok \in BOOLEAN :
         ~PreprocessOk(content_ok, method)

-----------------------------------------------------------------------------
(* Claims about the range of the scores handed out *)

\* a score counted in hundredths lies in [0,1]
UnitHundredths(x) == 0 <= x /\ x <= 100

\* an exact fraction lies in [0,1]
UnitFraction(f) == 0 <= f[1] /\ f[1] <= f[2]

\* C22 as stated: every score the core hands out lies in [0,1] for every
\* model output: each ClassificationScore.score, nsfw_score, nsfl_score and
\* csam_score of a ClassificationResult, each value of final_scores and the
\* agreement_score of an EnsembleResult.
C22_ScoresInUnitInterval ==
    /\ cres.status = "returned" =>
         /\ \A i \in DOMAIN cres.all_scores : UnitHundredths(cres.all_scores[i].score)
         /\ UnitHundredths(cres.nsfw_score)
         /\ UnitHundredths(cres.nsfl_score)
         /\ 0 <= cres.csam_score /\ cres.csam_score <= CsamDen
    /\ eres.status = "returned" =>
         /\ \A f \in eres.final_scores : UnitFraction(f.score)
         /\ UnitFraction(eres.agreement_score.value)

-----------------------------------------------------------------------------
(* Claims about ingestion *)

\* the finished ingest calls for content of SHA-256 h that did not return
\* status duplicate and did not fail in the metadata extractor or in Kafka
NotDuplicate(h) ==
    { j \in JobIds : /\ job[j].pc = "done"
                     /\ job[j].sha256 = h
                     /\ job[j].status \in {"completed", "IntegrityError"} }

\* C23 as stated: for any number of ingest calls with the same SHA-256, in any
\* interleaving, at most one hash record is created and at most one
\* ingestion.file.received event is sent for it, and every other call
\* returns status duplicate.
C23_IngestionDeduplicates ==
    \A h \in Sha256s :
        /\ records[h] <= 1
        /\ events[h] <= 1
        /\ Cardinality(NotDuplicate(h)) <= 1

-----------------------------------------------------------------------------
(* Claims about the raw content bytes *)

\* C24 as stated, for compute_all_hashes: the raw content bytes are never
\* in the returned result and never handed across a component boundary to
\* a collaborator; only hash values reach external collaborators.
C24_ContentNeverHandedOver ==
    HashesComputed =>
        /\ \A x \in hcall.handed_over : x.data # "content"
        /\ hres.status = "returned" =>
             /\ hres.phash # Present("content")
             /\ hres.photodna_hash # Present("content")

-----------------------------------------------------------------------------
(* Claims about what changes a registered descriptor *)

\* the descriptor registered under id in r after the step
DescriptorAfter(r, id) == Descriptor([builtin |-> builtin', models |-> models'], r, id)

\* a step of register or register_builtins: the dict changes and nothing else
RegisterStep ==
    /\ models' # models
    /\ UNCHANGED <<builtin, sessions, clock, task, lres, qres>>

\* a step of get_models_for_task, list_models or health_check
QueryStep ==
    /\ qres'.status = "returned"
    /\ qres'.op \in {"get_models_for_task", "list_models", "health_check"}

\* C25 as stated: the set of registered model ids never shrinks, and register,
\* register_builtins, get_models_for_task, list_models and health_check leave
\* the counters and the loaded flag of every already-registered model id
\* unchanged, register called again for an id with counters or a loaded
\* session included.
C25_RegisteredFrame ==
    [][ \A r \in Registries : \A id \in Keys(models[r]) :
          /\ id \in Keys(models'[r])
          /\ RegisterStep \/ QueryStep =>
               /\ DescriptorAfter(r, id).loaded = Descriptor(Store, r, id).loaded
               /\ DescriptorAfter(r, id).total_inferences
                    = Descriptor(Store, r, id).total_inferences
               /\ DescriptorAfter(r, id).avg_latency_ms
                    = Descriptor(Store, r, id).avg_latency_ms
               /\ DescriptorAfter(r, id).last_inference
                    = Descriptor(Store, r, id).last_inference ]_vars

-----------------------------------------------------------------------------
(* Claims about the normalization of a model's scores *)

\* the largest element of a non-empty set of numbers
Largest(S) == CHOOSE x \in S : \A y \in S : y <= x

\* the normalized score the mapping table gives a target category: the
\* maximum of the contributing products, 0 when there is none
MaxContribution(model_id, raw_scores, target) ==
    LET products == Contributions(model_id, raw_scores, target)
    IN  IF products = {} THEN 0 ELSE Largest(products)

\* C26 as stated: for a model with a mapping entry the normalized score of
\* each canonical category is the maximum over the reported source categories
\* of source score * mapping weight for the pairs naming that category (0 when
\* none contributes) and the keys are exactly the six canonical categories;
\* for a model without an entry the normalized scores are the raw scores.
C26_Normalization ==
    EReturned =>
        \A i \in DOMAIN eres.model_results :
            LET m == eres.model_results[i]
            IN  IF m.model_id \in DOMAIN CATEGORY_MAPPINGS
                THEN /\ Len(m.normalized_scores) = Len(CANONICAL_NSFW_CATEGORIES)
                     /\ \A k \in DOMAIN CANONICAL_NSFW_CATEGORIES :
                          /\ m.normalized_scores[k].category = CANONICAL_NSFW_CATEGORIES[k]
                          /\ m.normalized_scores[k].score
                               = MaxContribution(m.model_id, m.raw_scores,
                                                 CANONICAL_NSFW_CATEGORIES[k])
                ELSE /\ Len(m.normalized_scores) = Len(m.raw_scores)
                     /\ \A k \in DOMAIN m.raw_scores :
                          /\ m.normalized_scores[k].category = m.raw_scores[k].category
                          /\ m.normalized_scores[k].score = m.raw_scores[k].score * 10

-----------------------------------------------------------------------------
(* Claims about the age estimation stage *)

\* the margin in hundredths of a year: max(2, (1 - confidence) * 10)
AgeMargin(confidence) == IF (100 - confidence) * 10 > 200 THEN (100 - confidence) * 10 ELSE 200

-----------------------------------------------------------------------------
(* Claims about the method recorded in an EnsembleResult *)

\* the aggregation a method name stands for
AggregationNamed(name, model_results) ==
    CASE name = "weighted_average" -> _weighted_average(model_results)
      [] name = "majority_vote"    -> _majority_vote(model_results)
      [] name = "max_confidence"   -> _max_confidence(model_results)

\* C28 as stated: the method field of every EnsembleResult with non-empty
\* final_scores is one of weighted_average, majority_vote, max_confidence and
\* final_scores is the output of that aggregation over the successful models,
\* whatever method argument was passed.
C28_MethodNamesAggregation ==
    EReturned /\ eres.final_scores # {} =>
        /\ eres.method \in {"weighted_average", "majority_vote", "max_confidence"}
        /\ eres.final_scores = AggregationNamed(eres.method, eres.model_results)

-----------------------------------------------------------------------------
(* Claims about two registry instances *)

\* registry b is never asked to load, unload or register anything but the
\* catalog, and without a session it serves no inference: what it reports
\* of a model is what a registry left alone reports
ReportsUntouched(r, id) ==
    /\ ~Descriptor(Store, r, id).loaded
    /\ Descriptor(Store, r, id).total_inferences = 0
    /\ Descriptor(Store, r, id).avg_latency_ms = <<0, 1>>

\* C29 as stated: for two registries populated with register_builtins,
\* load_model, unload_model and predict on one never change what the other
\* reports of any model (loaded, total_inferences, avg_latency_ms), and in
\* each instance a descriptor has loaded = true only if the instance holds a
\* session for it.
C29_RegistriesIsolated ==
    /\ sessions["b"] = {} =>
         \A id \in Keys(models["b"]) : ReportsUntouched("b", id)
    /\ \A r \in live : \A id \in Keys(models[r]) :
         Descriptor(Store, r, id).loaded => id \in sessions[r]

-----------------------------------------------------------------------------
(* Claims about the NSFL stage and the verdict *)

\* what classify returns for the same NSFW, age and scene outputs when the
\* NSFL model is absent
WithoutNsfl ==
    ClassificationResult(_run_nsfw_detection(call.nsfw.output),
                         _run_nsfl_detection("None", <<>>),
                         _run_age_estimation(call.age.output),
                         _run_scene_classification(call.scene.output))

Verdict(result) ==
    <<result.primary_classification, result.csam_score, result.requires_human_review>>

====
